---- MODULE Spec2Model ----
(***************************************************************************)
(* A model of TxRadar10: the mempool state tracker (core/mempool.rs), the  *)
(* entity-tag index with cluster expansion (tags/mod.rs, db/mod.rs) and    *)
(* the prevout resolver and fee computation of the pipeline                *)
(* (core/pipeline.rs).                                                     *)
(***************************************************************************)
EXTENDS Integers, Sequences, FiniteSets, TLC

VARIABLES
    entries,            \* MempoolState.entries: txid -> MempoolEntry
    replacement_chain,  \* MempoolState.replacement_chain: old txid -> new txid
    now,                \* the value Utc::now() returns
    last,               \* the mempool operation performed last, with its arguments
    map,                \* TagLookup.map: address -> AddressTag (in memory)
    dbTags,             \* table address_tags of the store: address -> AddressTag
    tagPhase,           \* "startup" (main before load_from_db) or "running"
    txInputs,           \* the transaction at hand: input addresses, CoinJoin flag
    tagLast,            \* the tag operation performed last and its result
    utxo_cache,         \* table utxo_cache of the store: prevout key -> value
    rpcCalls,           \* prevout key -> number of getrawtransaction calls issued
    pipe,               \* run_pipeline: where the handler of TxAdded stands
    analyzed,           \* the AnalyzedTx assembled last: << >> or <<tx>>
    tx_count,           \* run_pipeline: tx_count
    sc,                 \* SignalEngine::score: the call at hand and its ScoredTx
    al,                 \* AlertLevel: the scores at hand and their levels
    cj,                 \* detect_coinjoin: the transaction at hand and the result
    events,             \* channel from the ZMQ subscriber to run_pipeline
    nextSeq,            \* position, in the order sent, of the next event
    sink,               \* the PipelineOutput messages delivered to the UI
    sinkOpen,           \* the receive end of the UI channel is not dropped
    signals,            \* table signals of the store: its rows in id order
    block_count,        \* run_pipeline: block_count
    dbLast,             \* the store call made last and what it returned
    zmq,                \* start_zmq_subscriber: status, last_seq, last warning
    inbox,              \* the frames at the rawtx and hashblock sockets, the blocks published
    notifier,           \* struct Notifier: enabled, min_score, cooldown, last_sent
    notifyCalls,        \* thread -> where its call of Notifier::notify stands
    sent,               \* the notifications sent, in order
    instant,            \* the value Instant::now() returns
    stats_elapsed,      \* now.duration_since(last_stats_time) >= STATS_TIME_INTERVAL
    prune_elapsed,      \* now.duration_since(last_prune_time) >= PRUNE_INTERVAL
    dbLock,             \* SharedDatabase.inner: the holder of the MutexGuard
    resolver,           \* resolve_prevout seen with its store locks: position
    poller              \* the UI poller seen with its store locks: position

mempoolVars == <<entries, replacement_chain, now, last>>

tagVars == <<map, dbTags, tagPhase, txInputs, tagLast>>

pipeVars == <<utxo_cache, rpcCalls, pipe, analyzed, tx_count>>

signalVars == <<sc, al, cj>>

flowVars == <<events, nextSeq, sink, sinkOpen, signals, block_count>>

storeVars == <<dbLast>>

zmqVars == <<zmq, inbox>>

notifyVars == <<notifier, notifyCalls, sent, instant>>

timerVars == <<stats_elapsed, prune_elapsed>>

lockVars == <<dbLock, resolver, poller>>

sideVars == <<storeVars, zmqVars, notifyVars, timerVars, lockVars>>

vars == <<entries, replacement_chain, now, last,
          map, dbTags, tagPhase, txInputs, tagLast,
          utxo_cache, rpcCalls, pipe, analyzed, tx_count,
          sc, al, cj,
          events, nextSeq, sink, sinkOpen, signals, block_count,
          dbLast, zmq, inbox, notifier, notifyCalls, sent, instant,
          stats_elapsed, prune_elapsed, dbLock, resolver, poller>>

None == "None"

(***************************************************************************)
(* Finite maps (HashMap): a function whose DOMAIN is the set of keys.      *)
(***************************************************************************)
EmptyMap == << >>

\* an insert that keeps the value of a key that is present
PutIfAbsent(m, k, v) == IF k \in DOMAIN m THEN m ELSE [x \in DOMAIN m \cup {k} |-> IF x = k THEN v ELSE m[x]]

Put(m, k, v) == [x \in DOMAIN m \cup {k} |-> IF x = k THEN v ELSE m[x]]

Del(m, ks) == [x \in DOMAIN m \ ks |-> m[x]]

(***************************************************************************)
(* Rationals stand for the f64 values of the program: [n, d] with d > 0.   *)
(***************************************************************************)
Rat(n, d) == [n |-> n, d |-> d]

RatLt(a, b) == a.n * b.d < b.n * a.d

RatGe(a, b) == a.n * b.d >= b.n * a.d

RECURSIVE Gcd(_, _)
Gcd(a, b) == IF b = 0 THEN a ELSE Gcd(b, a % b)

\* the product, in lowest terms
RatMul(a, b) ==
    LET n == a.n * b.n
        d == a.d * b.d
        g == IF n = 0 THEN d ELSE Gcd(n, d)
    IN  Rat(n \div g, d \div g)

(***************************************************************************)
(* Bounds and input sets of the mempool model.                             *)
(***************************************************************************)
MaxTime == 2

HistMaxTime == 1

Txids == {"t1", "t2"}

\* fee rates (sat/vB) an AnalyzedTx carries: each bucket and each boundary
FeeRates == {Rat(0, 1), Rat(9, 2), Rat(5, 1), Rat(12, 1), Rat(20, 1),
             Rat(50, 1), Rat(100, 1)}

Reasons == {"Confirmed", "Replaced", "Evicted", "Conflict", "Unknown"}

TxStates == {"Pending", "Confirmed", "Replaced", "Evicted"}

(***************************************************************************)
(* core/mempool.rs                                                         *)
(***************************************************************************)
F64_MAX == 2147483647

\* FEE_BUCKETS: (lo, hi, label), in bucket order
FEE_BUCKETS ==
    << [lo |-> Rat(0, 1),   hi |-> Rat(5, 1),       label |-> "1-5"],
       [lo |-> Rat(5, 1),   hi |-> Rat(10, 1),      label |-> "5-10"],
       [lo |-> Rat(10, 1),  hi |-> Rat(20, 1),      label |-> "10-20"],
       [lo |-> Rat(20, 1),  hi |-> Rat(50, 1),      label |-> "20-50"],
       [lo |-> Rat(50, 1),  hi |-> Rat(100, 1),     label |-> "50-100"],
       [lo |-> Rat(100, 1), hi |-> Rat(F64_MAX, 1), label |-> "100+"] >>

\* MempoolEntry as add_tx builds it
NewEntry(rate, t) ==
    [fee_rate |-> rate, state |-> "Pending", state_changed_at |-> t,
     replaced_by |-> None]

\* remove_tx with the Replaced arm lost
NewStateNoReplaced(reason) ==
    CASE reason = "Confirmed" -> "Confirmed"
      [] OTHER                -> "Evicted"

\* remove_tx: the match on the removal reason
NewState(reason) ==
    CASE reason = "Confirmed" -> "Confirmed"
      [] reason = "Replaced"  -> "Replaced"
      [] OTHER                -> "Evicted"

\* remove_tx that deletes the entry it finds
RemoveTxEntriesDeleting(es, txid, reason, t) == Del(es, {txid})

\* remove_tx on the entries map
RemoveTxEntries(es, txid, reason, t) ==
    IF txid \in DOMAIN es
    THEN [es EXCEPT ![txid].state = NewState(reason),
                    ![txid].state_changed_at = t]
    ELSE es

\* record_replacement on the entries map
RecordReplacementEntries(es, old, new, t) ==
    IF old \in DOMAIN es
    THEN [es EXCEPT ![old].replaced_by = new,
                    ![old].state = "Replaced",
                    ![old].state_changed_at = t]
    ELSE es

\* confirm_txids without the test of the state
ConfirmTxidsEntriesAnyState(es, txids, t) ==
    [x \in DOMAIN es |->
        IF x \in txids
        THEN [es[x] EXCEPT !.state = "Confirmed", !.state_changed_at = t]
        ELSE es[x]]

\* confirm_txids on the entries map
ConfirmTxidsEntries(es, txids, t) ==
    [x \in DOMAIN es |->
        IF x \in txids /\ es[x].state = "Pending"
        THEN [es[x] EXCEPT !.state = "Confirmed", !.state_changed_at = t]
        ELSE es[x]]

\* pending_count
PendingCount(es) == Cardinality({x \in DOMAIN es : es[x].state = "Pending"})

\* fee_histogram with the lower end of a bucket excluded
RECURSIVE BucketOfOpenLow(_, _)
BucketOfOpenLow(rate, i) ==
    IF i > Len(FEE_BUCKETS) THEN 0
    ELSE IF RatLt(FEE_BUCKETS[i].lo, rate) /\ RatLt(rate, FEE_BUCKETS[i].hi)
         THEN i
         ELSE BucketOfOpenLow(rate, i + 1)

\* fee_histogram, inner loop: index of the first bucket from i on whose range
\* holds the rate (0 when none does: the entry is then counted nowhere)
RECURSIVE BucketOf(_, _)
BucketOf(rate, i) ==
    IF i > Len(FEE_BUCKETS) THEN 0
    ELSE IF RatGe(rate, FEE_BUCKETS[i].lo) /\ RatLt(rate, FEE_BUCKETS[i].hi)
         THEN i
         ELSE BucketOf(rate, i + 1)

\* fee_histogram: (label, count) per bucket, in bucket order
FeeHistogram(es) ==
    [i \in 1..Len(FEE_BUCKETS) |->
        [label |-> FEE_BUCKETS[i].label,
         count |-> Cardinality({x \in DOMAIN es :
                        /\ es[x].state = "Pending"
                        /\ BucketOf(es[x].fee_rate, 1) = i})]]

\* the sum of a field of the entries of the keys
RECURSIVE SumOf(_, _, _)
SumOf(es, keys, field) ==
    IF keys = {} THEN 0
    ELSE LET k == CHOOSE x \in keys : TRUE
         IN  es[k][field] + SumOf(es, keys \ {k}, field)

TotalFees(es) ==
    SumOf(es, {x \in DOMAIN es : es[x].state = "Pending"}, "fee")

TotalVsize(es) ==
    SumOf(es, {x \in DOMAIN es : es[x].state = "Pending"}, "vsize")

\* prune_old with an inclusive cutoff
PrunableInclusive(e, t, max_age) ==
    e.state # "Pending" /\ e.state_changed_at <= t - max_age

\* prune_old: the filter
Prunable(e, t, max_age) ==
    e.state # "Pending" /\ e.state_changed_at < t - max_age

\* prune_old that forgets the state of an entry
RemovedTxidsAnyState(es, t, max_age) ==
    {x \in DOMAIN es : es[x].state_changed_at < t - max_age}

\* prune_old: the txids removed
RemovedTxids(es, t, max_age) ==
    {x \in DOMAIN es : Prunable(es[x], t, max_age)}

AddTx(txid, rate) ==
    /\ entries' = Put(entries, txid, NewEntry(rate, now))
    /\ last' = [op |-> "add_tx", txid |-> txid]
    /\ UNCHANGED <<replacement_chain, now, tagVars, pipeVars, signalVars, sideVars,
                   flowVars>>

RemoveTx(txid, reason) ==
    /\ entries' = RemoveTxEntries(entries, txid, reason, now)
    /\ last' = [op |-> "remove_tx", txid |-> txid, reason |-> reason]
    /\ UNCHANGED <<replacement_chain, now, tagVars, pipeVars, signalVars, sideVars,
                   flowVars>>

RecordReplacement(old, new) ==
    /\ replacement_chain' = Put(replacement_chain, old, new)
    /\ entries' = RecordReplacementEntries(entries, old, new, now)
    /\ last' = [op |-> "record_replacement", txid |-> old]
    /\ UNCHANGED <<now, tagVars, pipeVars, signalVars, sideVars,
                   flowVars>>

ConfirmTxids(txids) ==
    /\ entries' = ConfirmTxidsEntries(entries, txids, now)
    /\ last' = [op |-> "confirm_txids", txids |-> txids]
    /\ UNCHANGED <<replacement_chain, now, tagVars, pipeVars, signalVars, sideVars,
                   flowVars>>

PruneOld(max_age) ==
    /\ entries' = Del(entries, RemovedTxids(entries, now, max_age))
    /\ replacement_chain' =
           Del(replacement_chain, RemovedTxids(entries, now, max_age))
    /\ last' = [op |-> "prune_old", max_age |-> max_age]
    /\ UNCHANGED <<now, tagVars, pipeVars, signalVars, sideVars,
                   flowVars>>

\* time passes between two calls of Utc::now()
Tick(maxT) ==
    /\ now < maxT
    /\ now' = now + 1
    /\ last' = [op |-> "tick"]
    /\ UNCHANGED <<entries, replacement_chain, tagVars, pipeVars, signalVars, sideVars,
                   flowVars>>

(***************************************************************************)
(* Bounds and input sets of the tag model.                                 *)
(***************************************************************************)
MaxInputs == 3

MaxCsvRows == 2

MaxCalls == 2

Addresses == {"a", "b", "c"}

Entities == {[entity |-> "Binance", entity_type |-> "exchange"],
             [entity |-> "BitPay", entity_type |-> "payment"]}

\* CSV rows as line.splitn(5, ',') cuts them: rows of 5 parts with a
\* confidence that parses, a row of 5 parts with one that does not, a row of
\* 4 parts (no source) and a row of 3 parts
CsvRows ==
    [cols : {5}, address : {"a", "b"}, entity : Entities,
     confidence : {"0.9", "0.5"}]
    \cup {[cols |-> 5, address |-> "a", entity |-> e, confidence |-> "high"] :
             e \in {[entity |-> "Binance", entity_type |-> "exchange"]}}
    \cup {[cols |-> n, address |-> "b", entity |-> e, confidence |-> "0.9"] :
             n \in {3, 4},
             e \in {[entity |-> "BitPay", entity_type |-> "payment"]}}

CsvFiles == UNION {[1..n -> CsvRows] : n \in 0..MaxCsvRows}

InputLists == UNION {[1..n -> Addresses] : n \in 0..MaxInputs}

Txs == [inputs : InputLists, is_coinjoin : BOOLEAN]

(***************************************************************************)
(* db/mod.rs: table address_tags                                           *)
(***************************************************************************)
AddressTag(address, entity, entity_type, confidence, source) ==
    [address |-> address, entity |-> entity, entity_type |-> entity_type,
     confidence |-> confidence, source |-> source]

\* parts[3].trim().parse().unwrap_or(0.5)
ParseConfidence(text) ==
    CASE text = "0.9" -> Rat(9, 10)
      [] text = "0.5" -> Rat(1, 2)
      [] OTHER        -> Rat(1, 2)

\* load_tags_from_csv: the AddressTag of a row
RowTag(row) ==
    AddressTag(row.address, row.entity.entity, row.entity.entity_type,
               ParseConfidence(row.confidence),
               IF row.cols >= 5 THEN "csv" ELSE None)

\* Database::insert_tag: INSERT OR REPLACE
InsertTagDb(db, tag) == Put(db, tag.address, tag)

\* Database::load_tags_from_csv: rows i.. of the file; the insert of row fail_at
\* returns an error, which ends the load
RECURSIVE LoadTagsFromCsv(_, _, _, _)
LoadTagsFromCsv(db, rows, i, fail_at) ==
    IF i > Len(rows) THEN db
    ELSE IF rows[i].cols < 4 THEN LoadTagsFromCsv(db, rows, i + 1, fail_at)
    ELSE IF i = fail_at THEN db
    ELSE LoadTagsFromCsv(InsertTagDb(db, RowTag(rows[i])), rows, i + 1, fail_at)

\* SharedDatabase::insert_tag_if_higher: the upsert-if-higher of the store, a
\* no-op when the stored tag has at least the confidence of the new one
InsertTagIfHigher(db, tag) ==
    IF tag.address \in DOMAIN db
       /\ RatGe(db[tag.address].confidence, tag.confidence)
    THEN db
    ELSE Put(db, tag.address, tag)

(***************************************************************************)
(* tags/mod.rs                                                             *)
(***************************************************************************)
CLUSTER_CONFIDENCE_FACTOR == Rat(7, 10)

\* expand_from_tx that takes the first tagged input as the best tag
RECURSIVE BestTagFirst(_, _, _, _)
BestTagFirst(m, inputs, i, best) ==
    IF i > Len(inputs) THEN best
    ELSE IF inputs[i] \notin DOMAIN m \/ best # << >>
         THEN BestTagFirst(m, inputs, i + 1, best)
         ELSE BestTagFirst(m, inputs, i + 1, <<m[inputs[i]]>>)

\* expand_from_tx: filter_map(map.get).max_by(confidence) over inputs i..;
\* best is << >> (None) or <<tag>>; of equal maxima max_by keeps the last
RECURSIVE BestTag(_, _, _, _)
BestTag(m, inputs, i, best) ==
    IF i > Len(inputs) THEN best
    ELSE IF inputs[i] \notin DOMAIN m THEN BestTag(m, inputs, i + 1, best)
    ELSE IF best # << >> /\ RatLt(m[inputs[i]].confidence, best[1].confidence)
         THEN BestTag(m, inputs, i + 1, best)
         ELSE BestTag(m, inputs, i + 1, <<m[inputs[i]]>>)

\* expand_from_tx with a strict comparison in the skip test
SkipStrict(m, addr, derived) ==
    addr \in DOMAIN m /\ RatLt(derived, m[addr].confidence)

\* expand_from_tx: the skip test of the loop
Skip(m, addr, derived) ==
    addr \in DOMAIN m /\ RatGe(m[addr].confidence, derived)

\* a pass of the loop that writes the in-memory map only
WriteTagMapOnly(st, addr, new_tag, failed) ==
    [map |-> Put(st.map, addr, new_tag), db |-> st.db, ret |-> st.ret + 1]

\* expand_from_tx: one pass of the loop that writes new_tag at addr
WriteTag(st, addr, new_tag, failed) ==
    [map |-> Put(st.map, addr, new_tag),
     db  |-> IF addr \in failed THEN st.db
             ELSE InsertTagIfHigher(st.db, new_tag),
     ret |-> st.ret + 1]

\* expand_from_tx: the loop over inputs i..; st is [map, db, ret]; the upsert
\* of an address in failed returns an error, which is logged
RECURSIVE ExpandLoop(_, _, _, _, _, _)
ExpandLoop(st, inputs, i, best, derived, failed) ==
    IF i > Len(inputs) THEN st
    ELSE IF Skip(st.map, inputs[i], derived)
         THEN ExpandLoop(st, inputs, i + 1, best, derived, failed)
         ELSE ExpandLoop(
                  WriteTag(st, inputs[i],
                           AddressTag(inputs[i], best.entity, best.entity_type,
                                      derived, "cluster_heuristic"),
                           failed),
                  inputs, i + 1, best, derived, failed)

\* expand_from_tx: after the CoinJoin and the length guard
ExpandWithBest(st, inputs, best, failed) ==
    IF best = << >> THEN st
    ELSE ExpandLoop(st, inputs, 1, best[1],
                    RatMul(best[1].confidence, CLUSTER_CONFIDENCE_FACTOR),
                    failed)

\* expand_from_tx without the CoinJoin guard
ExpandFromTxNoGuard(m, db, inputs, is_coinjoin, failed) ==
    IF Len(inputs) < 2 THEN [map |-> m, db |-> db, ret |-> 0]
    ELSE ExpandWithBest([map |-> m, db |-> db, ret |-> 0], inputs,
                        BestTag(m, inputs, 1, << >>), failed)

\* expand_from_tx: the map and the store after the call, and its return value
ExpandFromTx(m, db, inputs, is_coinjoin, failed) ==
    IF is_coinjoin THEN [map |-> m, db |-> db, ret |-> 0]
    ELSE IF Len(inputs) < 2 THEN [map |-> m, db |-> db, ret |-> 0]
    ELSE ExpandWithBest([map |-> m, db |-> db, ret |-> 0], inputs,
                        BestTag(m, inputs, 1, << >>), failed)

\* db.insert_tag(tag) on the store, before the index is built
InsertTag(row) ==
    /\ tagPhase = "startup"
    /\ row.cols >= 4
    /\ dbTags' = InsertTagDb(dbTags, RowTag(row))
    /\ tagLast' = [op |-> "insert_tag"]
    /\ UNCHANGED <<map, tagPhase, txInputs, mempoolVars, pipeVars,
                   signalVars, sideVars, flowVars>>

\* main: db.load_tags_from_csv(csv_path), its result only logged
LoadCsv(rows, fail_at) ==
    /\ tagPhase = "startup"
    /\ dbTags' = LoadTagsFromCsv(dbTags, rows, 1, fail_at)
    /\ tagLast' = [op |-> "load_tags_from_csv"]
    /\ UNCHANGED <<map, tagPhase, txInputs, mempoolVars, pipeVars,
                   signalVars, sideVars, flowVars>>

\* TagLookup::load_from_db: db.all_tags().unwrap_or_default()
LoadFromDb(ok) ==
    /\ tagPhase = "startup"
    /\ map' = IF ok THEN dbTags ELSE EmptyMap
    /\ tagPhase' = "running"
    /\ tagLast' = [op |-> "load_from_db"]
    /\ UNCHANGED <<dbTags, txInputs, mempoolVars, pipeVars,
                   signalVars, sideVars, flowVars>>

\* the addresses whose tag in the index m2 is not their tag in the index m
Retagged(m, m2) ==
    {a \in DOMAIN m2 : a \notin DOMAIN m \/ m[a] # m2[a]}

\* the state after a call of expand_from_tx that returned r; only an upsert
\* the call made can have failed
Expanded(r, failed) ==
    /\ failed \subseteq Retagged(map, r.map)
    /\ map' = r.map
    /\ dbTags' = r.db
    /\ tagLast' = [op |-> "expand_from_tx", ret |-> r.ret, failed |-> failed,
                   calls |-> IF tagLast.op = "expand_from_tx"
                             THEN tagLast.calls + 1 ELSE 1]

\* a call of expand_from_tx for the transaction at hand; the upserts of the
\* addresses in failed return an error
Expand(failed) ==
    /\ tagPhase = "running"
    /\ tagLast.op = "expand_from_tx" => tagLast.calls < MaxCalls
    /\ Expanded(ExpandFromTx(map, dbTags, txInputs.inputs,
                             txInputs.is_coinjoin, failed), failed)
    /\ UNCHANGED <<tagPhase, txInputs, mempoolVars, pipeVars,
                   signalVars, sideVars, flowVars>>

(***************************************************************************)
(* Bounds and input sets of the pipeline model.                            *)
(***************************************************************************)
MaxTxs == 2

MaxTxInputs == 2

\* events the subscriber sends in all, and events the channel holds at once
MaxEvents == 3

MaxQueue == 2

\* rows of a batch, and rows of the table signals
MaxBatch == 2

MaxRows == 3

\* the threads that call Notifier::notify
Threads == {"t1", "t2"}

\* total output values and virtual sizes of the transactions
OutputValues == {1, 2}

Vsizes == {2}

\* previous outputs, as (prev_txid, prev_vout), and their value on the chain
PrevKeys == {"p1:0", "p2:1"}

PrevValue(key) == IF key = "p1:0" THEN 3 ELSE 2

\* input lists: up to MaxTxInputs previous outputs, each spent once
PrevLists ==
    UNION {{l \in [1..n -> PrevKeys] :
               \A i \in 1..n, j \in 1..n : l[i] = l[j] => i = j} :
           n \in 1..MaxTxInputs}

RECURSIVE SumValues(_, _)
SumValues(l, i) ==
    IF i > Len(l) THEN 0 ELSE PrevValue(l[i]) + SumValues(l, i + 1)

\* the transactions the node relays: the outputs spend no more than the inputs
RelayedTxs ==
    {tx \in [txid : Txids, inputs : PrevLists,
             total_output_value : OutputValues, vsize : Vsizes] :
        tx.total_output_value <= SumValues(tx.inputs, 1)}

(***************************************************************************)
(* db/mod.rs: table utxo_cache                                             *)
(***************************************************************************)
\* get_utxo that reads no value from the row it finds
GetUtxoNoValue(cache, key, db_ok) ==
    IF ~db_ok THEN [kind |-> "Err", value |-> 0]
    ELSE IF key \in DOMAIN cache THEN [kind |-> "Some", value |-> 0]
    ELSE [kind |-> "None", value |-> 0]

\* Database::get_utxo: Err, Ok(None) or Ok(Some(value))
GetUtxo(cache, key, db_ok) ==
    IF ~db_ok THEN [kind |-> "Err", value |-> 0]
    ELSE IF key \in DOMAIN cache THEN [kind |-> "Some", value |-> cache[key]]
    ELSE [kind |-> "None", value |-> 0]

\* cache_utxo as INSERT OR IGNORE: the row of a key that is cached stays
CacheUtxoOrIgnore(cache, key, value, db_ok) ==
    IF db_ok /\ key \notin DOMAIN cache THEN Put(cache, key, value) ELSE cache

\* Database::cache_utxo: INSERT OR REPLACE, or an error that writes nothing
CacheUtxo(cache, key, value, db_ok) ==
    IF db_ok THEN Put(cache, key, value) ELSE cache

\* the row of the table at the key before a call: << >> or <<value>>
RowAt(cache, key) == IF key \in DOMAIN cache THEN <<cache[key]>> ELSE << >>

\* a caller of SharedDatabase::cache_utxo
CacheUtxoCall(key, value, db_ok) ==
    /\ utxo_cache' = CacheUtxo(utxo_cache, key, value, db_ok)
    /\ dbLast' = [op |-> "cache_utxo", key |-> key, value |-> value,
                  ok |-> db_ok, before |-> RowAt(utxo_cache, key)]
    /\ UNCHANGED <<rpcCalls, pipe, analyzed, tx_count, mempoolVars, tagVars,
                   signalVars, flowVars, zmqVars, notifyVars, timerVars,
                   lockVars>>

\* a caller of SharedDatabase::get_utxo
GetUtxoCall(key, db_ok) ==
    /\ dbLast' = [op |-> "get_utxo", key |-> key,
                  result |-> GetUtxo(utxo_cache, key, db_ok)]
    /\ UNCHANGED <<pipeVars, mempoolVars, tagVars, signalVars, flowVars,
                   zmqVars, notifyVars, timerVars, lockVars>>

(***************************************************************************)
(* core/pipeline.rs                                                        *)
(***************************************************************************)
PRUNE_MAX_AGE == 5

STATS_TX_INTERVAL == 100

\* SignalConfig::default: min_score_persist
MIN_SCORE_PERSIST == Rat(10, 1)

\* the composite scores of the engine that the pipeline model tells apart:
\* one below min_score_persist and one above it
Composites == {Rat(5, 1), Rat(75, 4)}

\* resolve_prevout that calls the node whatever the cache returned
CallsRpcAlways(found) == TRUE

\* resolve_prevout: the cache lookup returned no value, so the node is called
CallsRpc(found) == found.kind # "Some"

\* u64::saturating_sub
SaturatingSub(a, b) == IF a >= b THEN a - b ELSE 0

\* resolve_all_prevouts: the input at hand resolved to value
InputResolved(p, value) ==
    [stage |-> "resolving", tx |-> p.tx, i |-> p.i + 1,
     total_input_value |-> p.total_input_value + value,
     resolved_count |-> p.resolved_count + 1]

\* an input that does not resolve ends the work on the transaction
InputUnresolvedAborts(p) == [stage |-> "idle"]

\* resolve_all_prevouts: the input at hand did not resolve
InputUnresolved(p) ==
    [stage |-> "resolving", tx |-> p.tx, i |-> p.i + 1,
     total_input_value |-> p.total_input_value,
     resolved_count |-> p.resolved_count]

\* run_pipeline: the AnalyzedTx of a transaction after resolve_all_prevouts
AnalyzedTx(tx, total_input_value, resolved_count) ==
    LET fee == IF total_input_value > 0
               THEN SaturatingSub(total_input_value, tx.total_output_value)
               ELSE 0
    IN  [txid |-> tx.txid,
         vsize |-> tx.vsize,
         input_count |-> Len(tx.inputs),
         total_input_value |-> total_input_value,
         total_output_value |-> tx.total_output_value,
         fee |-> fee,
         fee_rate |-> IF total_input_value > 0 /\ tx.vsize > 0
                      THEN Rat(fee, tx.vsize) ELSE Rat(0, 1),
         prevouts_resolved |-> resolved_count = Len(tx.inputs)]

\* the keys with a getrawtransaction call in flight
InFlight == IF pipe.stage = "rpc" THEN {pipe.key} ELSE {}

\* MempoolEvent, with seq, the position of the event in the order in which
\* the subscriber sent the events; parsed is what parse_raw_tx makes of the
\* raw bytes, << >> for an error and <<tx>> for a transaction
TxAddedEvent(seq, parsed) ==
    [kind |-> "TxAdded", seq |-> seq, parsed |-> parsed]

TxRemovedEvent(seq, txid, reason) ==
    [kind |-> "TxRemoved", seq |-> seq, txid |-> txid, reason |-> reason]

BlockConnectedEvent(seq, height) ==
    [kind |-> "BlockConnected", seq |-> seq, height |-> height]

BlockDisconnectedEvent(seq) == [kind |-> "BlockDisconnected", seq |-> seq]

\* PipelineOutput, with the seq of the event it answers
NewTx(seq, tx, composite_score) ==
    [kind |-> "NewTx", seq |-> seq, txid |-> tx.txid,
     composite_score |-> composite_score,
     prevouts_resolved |-> tx.prevouts_resolved]

BlockConnectedOutput(seq, height) ==
    [kind |-> "BlockConnected", seq |-> seq, height |-> height]

\* send_stats with total_vsize taken over the entries of every state
MempoolStatsAllStates(es) ==
    [kind |-> "MempoolStats", pending_count |-> PendingCount(es),
     total_vsize |-> SumOf(es, DOMAIN es, "vsize"),
     total_fees |-> TotalFees(es), fee_histogram |-> FeeHistogram(es)]

MempoolStats(es) ==
    [kind |-> "MempoolStats", pending_count |-> PendingCount(es),
     total_vsize |-> TotalVsize(es), total_fees |-> TotalFees(es),
     fee_histogram |-> FeeHistogram(es)]

\* a channel that hands the newest message out first
SendFirst(queue, message) == <<message>> \o queue

\* mpsc::UnboundedSender::send: the message is the last the receiver gets
Send(queue, message) == Append(queue, message)

\* the subscriber sends an event on the channel
Ingest(e) ==
    /\ nextSeq <= MaxEvents
    /\ Len(events) < MaxQueue
    /\ e.seq = nextSeq
    /\ events' = Send(events, e)
    /\ nextSeq' = nextSeq + 1
    /\ UNCHANGED <<sink, sinkOpen, signals, block_count,
                   mempoolVars, tagVars, pipeVars, signalVars, sideVars>>

\* the UI drops the receive end of its channel
DropSink ==
    /\ sinkOpen
    /\ sinkOpen' = FALSE
    /\ UNCHANGED <<events, nextSeq, sink, signals, block_count,
                   mempoolVars, tagVars, pipeVars, signalVars, sideVars>>

\* the parsed transaction of the event at hand, with the seq of the event
Received(tx, seq) ==
    [txid |-> tx.txid, inputs |-> tx.inputs,
     total_output_value |-> tx.total_output_value, vsize |-> tx.vsize,
     seq |-> seq]

\* a parse error that ends the loop
ParseFailedBreaks(p) == [stage |-> "stopped"]

\* Err(e) of parse_raw_tx: continue, the loop takes the next event
ParseFailed(p) == p

\* run_pipeline receives TxAdded: a raw transaction that does not parse is
\* dropped, for one that parses resolve_all_prevouts starts
TxAdded ==
    /\ pipe.stage = "idle"
    /\ events # << >>
    /\ Head(events).kind = "TxAdded"
    /\ tx_count < MaxTxs
    /\ events' = Tail(events)
    /\ pipe' = IF Head(events).parsed = << >> THEN ParseFailed(pipe)
               ELSE [stage |-> "resolving",
                     tx |-> Received(Head(events).parsed[1], Head(events).seq),
                     i |-> 1, total_input_value |-> 0, resolved_count |-> 0]
    /\ UNCHANGED <<utxo_cache, rpcCalls, analyzed, tx_count,
                   nextSeq, sink, sinkOpen, signals, block_count,
                   mempoolVars, tagVars, signalVars, sideVars>>

\* the state after the cache lookup of resolve_prevout returned found: the
\* input is resolved from the cache, or the node is called and awaited
LookedUp(key, found) ==
    IF CallsRpc(found)
    THEN /\ pipe' = [stage |-> "rpc", tx |-> pipe.tx, i |-> pipe.i,
                     total_input_value |-> pipe.total_input_value,
                     resolved_count |-> pipe.resolved_count,
                     key |-> key, found |-> found.kind]
         /\ rpcCalls' = [rpcCalls EXCEPT ![key] = @ + 1]
    ELSE /\ pipe' = InputResolved(pipe, found.value)
         /\ UNCHANGED rpcCalls

\* resolve_prevout for the next input, up to the await of the RPC
ResolvePrevout(db_ok) ==
    /\ pipe.stage = "resolving"
    /\ pipe.i <= Len(pipe.tx.inputs)
    /\ LookedUp(pipe.tx.inputs[pipe.i],
                GetUtxo(utxo_cache, pipe.tx.inputs[pipe.i], db_ok))
    /\ UNCHANGED <<utxo_cache, analyzed, tx_count, mempoolVars, tagVars,
                   signalVars, sideVars, flowVars>>

\* resolve_prevout after the await: the node returned the transaction ("Ok"),
\* a JSON without the value of the output ("NoValue"), or an error ("Err")
RpcReturns(result, db_ok) ==
    /\ pipe.stage = "rpc"
    /\ IF result = "Ok"
       THEN /\ utxo_cache' = CacheUtxo(utxo_cache, pipe.key,
                                       PrevValue(pipe.key), db_ok)
            /\ pipe' = InputResolved(pipe, PrevValue(pipe.key))
       ELSE /\ pipe' = InputUnresolved(pipe)
            /\ UNCHANGED utxo_cache
    /\ UNCHANGED <<rpcCalls, analyzed, tx_count, mempoolVars, tagVars,
                   signalVars, sideVars, flowVars>>

\* the state after mempool.add_tx(tx) and, when due, prune_old(PRUNE_MAX_AGE)
Tracked(tx, added, prune_due) ==
    /\ analyzed' = <<tx>>
    /\ entries' = IF prune_due
                  THEN Del(added, RemovedTxids(added, now, PRUNE_MAX_AGE))
                  ELSE added
    /\ replacement_chain' =
          IF prune_due
          THEN Del(replacement_chain, RemovedTxids(added, now, PRUNE_MAX_AGE))
          ELSE replacement_chain
    /\ last' = IF prune_due
               THEN [op |-> "prune_old", max_age |-> PRUNE_MAX_AGE]
               ELSE [op |-> "add_tx"]

\* the pending SignalBatchEntry values of run_pipeline: it keeps none
PendingSignals == {}

\* run_pipeline sends NewTx(scored): delivered, and followed by the stats
\* when due, or failed, which ends the loop before the stats and the prune
Emitted(scored, stats, stats_due) ==
    IF sinkOpen
    THEN /\ sink' = IF stats_due THEN sink \o <<scored, stats>>
                    ELSE Append(sink, scored)
         /\ pipe' = [stage |-> "idle"]
    ELSE /\ sink' = sink
         /\ pipe' = [stage |-> "stopped"]

\* add_tx: the MempoolEntry of an AnalyzedTx of the pipeline
TxEntry(tx, t) ==
    [fee_rate |-> tx.fee_rate, fee |-> tx.fee, vsize |-> tx.vsize,
     state |-> "Pending", state_changed_at |-> t, replaced_by |-> None]

\* run_pipeline after resolve_all_prevouts: assemble the AnalyzedTx, add it to
\* the tracker, score it (composite is the score of the engine), count it,
\* send it, send the stats when tx_count or the time says so, prune when the
\* prune interval has passed
Assemble(composite) ==
    /\ pipe.stage = "resolving"
    /\ pipe.i > Len(pipe.tx.inputs)
    /\ Tracked(AnalyzedTx(pipe.tx, pipe.total_input_value, pipe.resolved_count),
               Put(entries, pipe.tx.txid,
                   TxEntry(AnalyzedTx(pipe.tx, pipe.total_input_value,
                                      pipe.resolved_count), now)),
               prune_elapsed /\ sinkOpen)
    /\ tx_count' = tx_count + 1
    /\ Emitted(NewTx(pipe.tx.seq,
                     AnalyzedTx(pipe.tx, pipe.total_input_value,
                                pipe.resolved_count),
                     composite),
               MempoolStats(Put(entries, pipe.tx.txid,
                                TxEntry(AnalyzedTx(pipe.tx,
                                                   pipe.total_input_value,
                                                   pipe.resolved_count),
                                        now))),
               (tx_count + 1) % STATS_TX_INTERVAL = 0 \/ stats_elapsed)
    /\ stats_elapsed' = (stats_elapsed /\ ~sinkOpen)
    /\ prune_elapsed' = (prune_elapsed /\ ~sinkOpen)
    /\ UNCHANGED <<now, utxo_cache, rpcCalls, events, nextSeq, sinkOpen,
                   signals, block_count, tagVars, signalVars,
                   storeVars, zmqVars, notifyVars, lockVars>>

\* STATS_TIME_INTERVAL passes since last_stats_time
StatsIntervalPasses ==
    /\ ~stats_elapsed
    /\ stats_elapsed' = TRUE
    /\ UNCHANGED <<prune_elapsed, mempoolVars, tagVars, pipeVars, signalVars,
                   flowVars, storeVars, zmqVars, notifyVars, lockVars>>

\* PRUNE_INTERVAL passes since last_prune_time
PruneIntervalPasses ==
    /\ ~prune_elapsed
    /\ prune_elapsed' = TRUE
    /\ UNCHANGED <<stats_elapsed, mempoolVars, tagVars, pipeVars, signalVars,
                   flowVars, storeVars, zmqVars, notifyVars, lockVars>>

\* the handler of BlockConnected sending the stats only
BlockMessagesStatsOnly(seq, height, es) == <<MempoolStats(es)>>

\* the messages the handler of BlockConnected sends, in order
BlockMessages(seq, height, es) ==
    <<BlockConnectedOutput(seq, height), MempoolStats(es)>>

\* run_pipeline receives BlockConnected: count the block, send the message
\* and the stats, whether or not the sends succeed
BlockConnected ==
    /\ pipe.stage = "idle"
    /\ events # << >>
    /\ Head(events).kind = "BlockConnected"
    /\ events' = Tail(events)
    /\ block_count' = block_count + 1
    /\ sink' = IF sinkOpen
               THEN sink \o BlockMessages(Head(events).seq,
                                          Head(events).height, entries)
               ELSE sink
    /\ UNCHANGED <<nextSeq, sinkOpen, signals,
                   mempoolVars, tagVars, pipeVars, signalVars, sideVars>>

\* run_pipeline receives BlockDisconnected: a log line
BlockDisconnected ==
    /\ pipe.stage = "idle"
    /\ events # << >>
    /\ Head(events).kind = "BlockDisconnected"
    /\ events' = Tail(events)
    /\ UNCHANGED <<nextSeq, sink, sinkOpen, signals, block_count,
                   mempoolVars, tagVars, pipeVars, signalVars, sideVars>>

\* run_pipeline receives TxRemoved: mempool.remove_tx(txid, reason)
TxRemoved ==
    /\ pipe.stage = "idle"
    /\ events # << >>
    /\ Head(events).kind = "TxRemoved"
    /\ events' = Tail(events)
    /\ entries' = RemoveTxEntries(entries, Head(events).txid,
                                  Head(events).reason, now)
    /\ last' = [op |-> "remove_tx", txid |-> Head(events).txid,
                reason |-> Head(events).reason]
    /\ UNCHANGED <<replacement_chain, now, nextSeq, sink, sinkOpen, signals,
                   block_count, tagVars, pipeVars, signalVars, sideVars>>

(***************************************************************************)
(* f64 values that are not finite have d = 0: n = 1 is +inf, n = -1 is     *)
(* -inf, n = 0 is NaN.  Finite arithmetic is exact: rounding and overflow  *)
(* of finite values are not modelled, nor is the sign of zero.             *)
(***************************************************************************)
F64_INFINITY == Rat(1, 0)

F64_NEG_INFINITY == Rat(-1, 0)

F64_NAN == Rat(0, 0)

IsFinite(x) == x.d # 0

IsNaN(x) == x.d = 0 /\ x.n = 0

Abs(i) == IF i < 0 THEN -i ELSE i

Sign(i) == IF i < 0 THEN -1 ELSE IF i > 0 THEN 1 ELSE 0

\* n / d in lowest terms, d > 0
Reduced(n, d) ==
    LET g == IF n = 0 THEN d ELSE Gcd(Abs(n), d)
    IN  Rat(n \div g, d \div g)

\* a + b
FAdd(a, b) ==
    IF IsNaN(a) \/ IsNaN(b) THEN F64_NAN
    ELSE IF ~IsFinite(a)
         THEN IF ~IsFinite(b) /\ b.n # a.n THEN F64_NAN ELSE a
    ELSE IF ~IsFinite(b) THEN b
    ELSE Reduced(a.n * b.d + b.n * a.d, a.d * b.d)

\* -a
FNeg(a) == Rat(-a.n, a.d)

\* a * b
FMul(a, b) ==
    IF IsNaN(a) \/ IsNaN(b) THEN F64_NAN
    ELSE IF ~IsFinite(a) \/ ~IsFinite(b)
         THEN IF a.n = 0 \/ b.n = 0 THEN F64_NAN
              ELSE Rat(Sign(a.n) * Sign(b.n), 0)
    ELSE Reduced(a.n * b.n, a.d * b.d)

\* a / b
FDiv(a, b) ==
    IF IsNaN(a) \/ IsNaN(b) THEN F64_NAN
    ELSE IF ~IsFinite(a)
         THEN IF ~IsFinite(b) THEN F64_NAN
              ELSE Rat(IF b.n < 0 THEN -a.n ELSE a.n, 0)
    ELSE IF ~IsFinite(b) THEN Rat(0, 1)
    ELSE IF b.n = 0
         THEN IF a.n = 0 THEN F64_NAN ELSE Rat(Sign(a.n), 0)
    ELSE Reduced(a.n * b.d * Sign(b.n), a.d * Abs(b.n))

\* f64::abs
FAbs(a) == Rat(Abs(a.n), a.d)

\* a < b: false when either is NaN
FLt(a, b) ==
    /\ ~IsNaN(a)
    /\ ~IsNaN(b)
    /\ IF IsFinite(a) /\ IsFinite(b) THEN a.n * b.d < b.n * a.d
       ELSE IF IsFinite(a) THEN b.n > 0
       ELSE IF IsFinite(b) THEN a.n < 0
       ELSE a.n < b.n

\* a >= b: false when either is NaN
FGe(a, b) == ~IsNaN(a) /\ ~IsNaN(b) /\ ~FLt(a, b)

\* a == b: false when either is NaN
FEq(a, b) == ~IsNaN(a) /\ ~IsNaN(b) /\ a = b

\* f64::clamp: NaN stays NaN
FClamp(x, min, max) ==
    IF FLt(x, min) THEN min ELSE IF FLt(max, x) THEN max ELSE x

\* Iterator::sum of the first n values of a sequence, from 0.0 on
RECURSIVE FSum(_, _)
FSum(values, n) ==
    IF n = 0 THEN Rat(0, 1) ELSE FAdd(FSum(values, n - 1), values[n])

(***************************************************************************)
(* signals/rules.rs                                                        *)
(***************************************************************************)
\* 1.0 - 1.0 / (1.0 + x / scale), the curve of five rules
Curve(x, scale) ==
    FAdd(Rat(1, 1),
         FNeg(FDiv(Rat(1, 1), FAdd(Rat(1, 1), FDiv(x, Rat(scale, 1))))))

TxValueRule(tx) ==
    Curve(FDiv(Rat(tx.total_input_value, 1), Rat(100000000, 1)), 10)

UtxoAgeRule(tx) ==
    IF tx.oldest_input_age_days = << >> THEN Rat(0, 1)
    ELSE Curve(Rat(tx.oldest_input_age_days[1], 1), 365)

CoinDaysDestroyedRule(tx) ==
    IF tx.coin_days_destroyed = << >> THEN Rat(0, 1)
    ELSE Curve(tx.coin_days_destroyed[1], 1000)

InputCountRule(tx) == Curve(Rat(tx.input_count, 1), 20)

FeeRateRule(tx) == Curve(tx.fee_rate, 50)

RbfRule(tx) == IF tx.is_rbf_signaling THEN Rat(1, 2) ELSE Rat(0, 1)

CoinJoinRule(tx) ==
    IF tx.is_coinjoin
    THEN FClamp(tx.coinjoin_confidence, Rat(0, 1), Rat(1, 1))
    ELSE Rat(0, 1)

ExchangeFlowRule(tx) ==
    IF tx.to_exchange
    THEN FClamp(tx.to_exchange_confidence, Rat(0, 1), Rat(1, 1))
    ELSE IF tx.from_exchange
    THEN FNeg(FMul(FClamp(tx.from_exchange_confidence, Rat(0, 1), Rat(1, 1)),
                   Rat(1, 2)))
    ELSE Rat(0, 1)

\* default_rules: the names of the rules, in order
DefaultRules ==
    <<"tx_value", "utxo_age", "cdd", "input_count", "fee_rate", "rbf_flag",
      "exchange_flow", "coinjoin">>

\* Rule::default_weight
DefaultWeight(name) ==
    CASE name = "tx_value" -> Rat(6, 1)
      [] name = "utxo_age" -> Rat(8, 1)
      [] name = "cdd" -> Rat(9, 1)
      [] name = "input_count" -> Rat(4, 1)
      [] name = "fee_rate" -> Rat(3, 1)
      [] name = "rbf_flag" -> Rat(2, 1)
      [] name = "exchange_flow" -> Rat(10, 1)
      [] name = "coinjoin" -> Rat(-6, 1)

\* Rule::evaluate
Evaluate(name, tx) ==
    CASE name = "tx_value" -> TxValueRule(tx)
      [] name = "utxo_age" -> UtxoAgeRule(tx)
      [] name = "cdd" -> CoinDaysDestroyedRule(tx)
      [] name = "input_count" -> InputCountRule(tx)
      [] name = "fee_rate" -> FeeRateRule(tx)
      [] name = "rbf_flag" -> RbfRule(tx)
      [] name = "exchange_flow" -> ExchangeFlowRule(tx)
      [] name = "coinjoin" -> CoinJoinRule(tx)

(***************************************************************************)
(* signals/score.rs, core/mod.rs, signals/mod.rs                           *)
(***************************************************************************)
RuleScore(rule_name, raw_value, weight) ==
    [rule_name |-> rule_name, raw_value |-> raw_value, weight |-> weight,
     weighted_score |-> FMul(raw_value, weight)]

\* the weight itself in place of its absolute value
SignedWeight(w) == w

\* compute_composite: the term of a weight in max_possible
AbsWeight(w) == FAbs(w)

\* compute_composite of total_weighted and max_possible
CompositeOf(total_weighted, max_possible) ==
    IF FEq(max_possible, Rat(0, 1)) THEN Rat(0, 1)
    ELSE FClamp(FMul(FDiv(total_weighted, max_possible), Rat(100, 1)),
                Rat(0, 1), Rat(100, 1))

ComputeComposite(scores) ==
    CompositeOf(FSum([i \in 1..Len(scores) |-> scores[i].weighted_score],
                     Len(scores)),
                FSum([i \in 1..Len(scores) |-> AbsWeight(scores[i].weight)],
                     Len(scores)))

\* AlertLevel::from_score with > in place of >=
FromScoreStrict(score) ==
    IF FLt(Rat(80, 1), score) THEN "Critical"
    ELSE IF FLt(Rat(60, 1), score) THEN "High"
    ELSE IF FLt(Rat(40, 1), score) THEN "Medium"
    ELSE "Low"

\* AlertLevel::from_score
FromScore(score) ==
    IF FGe(score, Rat(80, 1)) THEN "Critical"
    ELSE IF FGe(score, Rat(60, 1)) THEN "High"
    ELSE IF FGe(score, Rat(40, 1)) THEN "Medium"
    ELSE "Low"

\* AlertLevel::from_score_with_thresholds: Critical >= critical, High >= high,
\* Medium >= medium, else Low
FromScoreWithThresholds(score, critical, high, medium) ==
    IF FGe(score, critical) THEN "Critical"
    ELSE IF FGe(score, high) THEN "High"
    ELSE IF FGe(score, medium) THEN "Medium"
    ELSE "Low"

\* AlertThresholds::default
DefaultThresholds ==
    [critical |-> Rat(80, 1), high |-> Rat(60, 1), medium |-> Rat(40, 1)]

\* SignalEngine::score: the RuleScore of each rule
RuleScores(rules, weight_overrides, tx) ==
    [i \in 1..Len(rules) |->
        RuleScore(rules[i], Evaluate(rules[i], tx),
                  IF rules[i] \in DOMAIN weight_overrides
                  THEN weight_overrides[rules[i]]
                  ELSE DefaultWeight(rules[i]))]

\* the ScoredTx of rule scores under thresholds
ScoredTx(rule_scores, composite, thresholds) ==
    [stage |-> "scored",
     rule_scores |-> rule_scores,
     composite_score |-> composite,
     alert_level |-> FromScoreWithThresholds(composite, thresholds.critical,
                                             thresholds.high,
                                             thresholds.medium)]

\* SignalEngine::score of the transaction at hand
Score ==
    /\ sc.stage = "input"
    /\ sc' = ScoredTx(RuleScores(DefaultRules, sc.weights, sc.tx),
                      ComputeComposite(RuleScores(DefaultRules, sc.weights,
                                                  sc.tx)),
                      sc.thresholds)
    /\ UNCHANGED <<al, cj, mempoolVars, tagVars, pipeVars,
                   flowVars, sideVars>>

\* compute_composite of the list of rule scores at hand
Composite ==
    /\ sc.stage = "list"
    /\ sc' = [stage |-> "composite",
              rule_scores |-> sc.scores,
              composite_score |-> ComputeComposite(sc.scores)]
    /\ UNCHANGED <<al, cj, mempoolVars, tagVars, pipeVars,
                   flowVars, sideVars>>

\* AlertLevel of the two scores at hand, under the thresholds at hand and
\* under the built-in ones
Classify ==
    /\ al.stage = "input"
    /\ al' = [stage |-> "classified",
              thresholds |-> al.thresholds,
              s1 |-> al.s1,
              s2 |-> al.s2,
              level1 |-> FromScoreWithThresholds(al.s1, al.thresholds.critical,
                                                 al.thresholds.high,
                                                 al.thresholds.medium),
              level2 |-> FromScoreWithThresholds(al.s2, al.thresholds.critical,
                                                 al.thresholds.high,
                                                 al.thresholds.medium),
              from_score1 |-> FromScore(al.s1)]
    /\ UNCHANGED <<sc, cj, mempoolVars, tagVars, pipeVars,
                   flowVars, sideVars>>

(***************************************************************************)
(* signals/coinjoin.rs                                                     *)
(***************************************************************************)
WHIRLPOOL_POOLS == {100000, 1000000, 5000000, 50000000}

\* CoinJoinResult::default
DefaultResult ==
    [is_coinjoin |-> FALSE, confidence |-> Rat(0, 1), pattern |-> "Unknown"]

CoinJoinResult(confidence, pattern) ==
    [is_coinjoin |-> TRUE, confidence |-> confidence, pattern |-> pattern]

\* tx.output.len(): outputs gives the number of outputs of each value
RECURSIVE OutputCount(_, _)
OutputCount(outputs, values) ==
    IF values = {} THEN 0
    ELSE LET v == CHOOSE x \in values : TRUE
         IN  outputs[v] + OutputCount(outputs, values \ {v})

\* detect_coinjoin: value_counts, the tally of the output values that occur
ValueCounts(outputs) ==
    [v \in {x \in DOMAIN outputs : outputs[x] > 0} |-> outputs[v]]

\* detect_coinjoin: the entries max_by_key may return, those of count >= 3
\* with the highest count, or (0, 0) when there is none
BestEntries(value_counts) ==
    LET frequent == {v \in DOMAIN value_counts : value_counts[v] >= 3}
    IN  IF frequent = {} THEN {[value |-> 0, count |-> 0]}
        ELSE {[value |-> v, count |-> value_counts[v]] :
                 v \in {x \in frequent :
                           \A y \in frequent :
                               value_counts[y] <= value_counts[x]}}

\* the quick exit without the test of the inputs
QuickExitOutputsOnly(input_count, output_count) == output_count < 3

\* detect_coinjoin: the quick exit
QuickExit(input_count, output_count) == input_count < 3 \/ output_count < 3

\* is_round without the test best_value > 0
IsRoundOrZero(best_value) == best_value % 100000 = 0

\* detect_coinjoin: is_round
IsRound(best_value) == best_value % 100000 = 0 /\ best_value > 0

\* the test of the ratio letting one half pass
RatioBelowHalf(equal_ratio) == RatLt(equal_ratio, Rat(1, 2))

\* detect_coinjoin: equal_ratio <= 0.5, the equal outputs are no majority
RatioTooLow(equal_ratio) == ~RatLt(Rat(1, 2), equal_ratio)

\* detect_coinjoin after the tally, for the entry max_by_key returned
DetectWithBest(input_count, output_count, best_value, best_count, equal_ratio, many_io) ==
    IF best_count < 3 THEN DefaultResult
    ELSE IF RatioTooLow(equal_ratio) THEN DefaultResult
    ELSE IF best_count = 5 /\ best_value \in WHIRLPOOL_POOLS /\ many_io
    THEN CoinJoinResult(Rat(95, 100), "WhirlpoolPool")
    ELSE IF best_count >= 5 /\ many_io
    THEN CoinJoinResult(IF IsRound(best_value) THEN Rat(85, 100)
                        ELSE Rat(75, 100),
                        IF IsRound(best_value) /\ best_count >= 10
                        THEN "WasabiLike" ELSE "EqualOutput")
    ELSE IF RatLt(Rat(7, 10), equal_ratio) /\ best_count >= 3
    THEN CoinJoinResult(Rat(5, 10), "EqualOutput")
    ELSE DefaultResult

\* detect_coinjoin, for the entry max_by_key returns
DetectCoinjoin(input_count, output_count, best) ==
    IF QuickExit(input_count, output_count) THEN DefaultResult
    ELSE DetectWithBest(input_count, output_count, best.value, best.count,
                        Rat(best.count, output_count),
                        input_count >= 5 /\ output_count >= 5)

\* detect_coinjoin of the transaction at hand
Detect ==
    /\ cj.stage = "input"
    /\ \E best \in BestEntries(ValueCounts(cj.outputs)) :
          cj' = [stage |-> "detected",
                 input_count |-> cj.input_count,
                 outputs |-> cj.outputs,
                 result |-> DetectCoinjoin(
                                cj.input_count,
                                OutputCount(cj.outputs, DOMAIN cj.outputs),
                                best)]
    /\ UNCHANGED <<sc, al, mempoolVars, tagVars, pipeVars,
                   flowVars, sideVars>>

PipeInit ==
    /\ utxo_cache = EmptyMap
    /\ rpcCalls = [k \in PrevKeys |-> 0]
    /\ pipe = [stage |-> "idle"]
    /\ analyzed = << >>
    /\ tx_count = 0

TagInit ==
    /\ map = EmptyMap
    /\ dbTags = EmptyMap
    /\ tagPhase = "startup"
    /\ txInputs = [inputs |-> << >>, is_coinjoin |-> FALSE]
    /\ tagLast = [op |-> "open"]

MempoolInit ==
    /\ entries = EmptyMap
    /\ replacement_chain = EmptyMap
    /\ now = 0
    /\ last = [op |-> "new"]

\* no scoring, classification or detection call at hand
SignalInit ==
    /\ sc = [stage |-> "idle"]
    /\ al = [stage |-> "idle"]
    /\ cj = [stage |-> "idle"]

(***************************************************************************)
(* db/mod.rs: table signals                                                *)
(***************************************************************************)
\* a SignalBatchEntry, as far as the table looks at it
SignalBatchEntry(txid, score) == [txid |-> txid, score |-> score]

\* INSERT INTO signals: score is REAL NOT NULL and SQLite binds NaN as NULL,
\* so the insert of a row whose score is NaN fails
InsertFails(entry) == IsNaN(entry.score)

\* the index of the first statement of the batch that fails: the first row
\* the table refuses or the statement an I/O error hits (io_fail_at, 0 for
\* none), and Len + 1 when only the commit fails; 0 when nothing fails
FirstFailure(batch, io_fail_at) ==
    LET refused == {i \in DOMAIN batch : InsertFails(batch[i])}
        failing == refused \cup (IF io_fail_at = 0 THEN {} ELSE {io_fail_at})
    IN  IF failing = {} THEN 0
        ELSE CHOOSE i \in failing : \A j \in failing : i <= j

\* Transaction dropped after a failure with its rows kept
RollbackKeepsRows(committed, working) == working

\* Transaction dropped without commit: DropBehavior::Rollback
Rollback(committed, working) == committed

\* Transaction::commit that succeeded
Commit(committed, working) == working

\* Database::store_signals_batch: the rows of the table afterwards and the
\* result; the statements run in order inside one transaction and the first
\* failure returns with `?`
StoreSignalsBatch(rows, batch, io_fail_at) ==
    LET failure == FirstFailure(batch, io_fail_at)
        executed == IF failure = 0 THEN Len(batch) ELSE failure - 1
        working == rows \o SubSeq(batch, 1, executed)
    IN  IF failure = 0
        THEN [rows |-> Commit(rows, working), ok |-> TRUE]
        ELSE [rows |-> Rollback(rows, working), ok |-> FALSE]

\* Database::get_signal_count
GetSignalCount(rows) == Len(rows)

\* a caller of SharedDatabase::store_signals_batch
StoreSignalsBatchCall(batch, io_fail_at) ==
    /\ Len(signals) + Len(batch) <= MaxRows
    /\ signals' = StoreSignalsBatch(signals, batch, io_fail_at).rows
    /\ dbLast' = [op |-> "store_signals_batch", batch |-> batch,
                  ok |-> StoreSignalsBatch(signals, batch, io_fail_at).ok,
                  count_before |-> GetSignalCount(signals)]
    /\ UNCHANGED <<events, nextSeq, sink, sinkOpen, block_count,
                   mempoolVars, tagVars, pipeVars, signalVars,
                   zmqVars, notifyVars, timerVars, lockVars>>

\* the channels are empty, the UI holds its receive end, the store of a
\* first start holds no signal
FlowInit ==
    /\ events = << >>
    /\ nextSeq = 1
    /\ sink = << >>
    /\ sinkOpen = TRUE
    /\ signals = << >>
    /\ block_count = 0

\* the store was opened, nothing else has called it
StoreInit == dbLast = [op |-> "open"]

\* start_zmq_subscriber before its loop
ZmqInit ==
    /\ zmq = [status |-> "running", last_seq |-> << >>, socket |-> << >>,
              warnings |-> {}]
    /\ inbox = [rawtx |-> << >>, hashblock |-> << >>, blocks |-> 0]

\* Notifier::new(&NotificationConfig::default()), no call at hand
NotifyInit ==
    /\ notifier = [enabled |-> TRUE, min_score |-> Rat(60, 1), cooldown |-> 30,
                   last_sent |-> << >>]
    /\ notifyCalls = [t \in Threads |-> [stage |-> "idle"]]
    /\ sent = << >>
    /\ instant = 0

\* last_stats_time and last_prune_time are the Instant of the start
TimerInit ==
    /\ stats_elapsed = FALSE
    /\ prune_elapsed = FALSE

\* nobody holds the store, resolve_prevout and the poller are not running
LockInit ==
    /\ dbLock = "free"
    /\ resolver = [stage |-> "idle"]
    /\ poller = [stage |-> "idle"]

SideInit == StoreInit /\ ZmqInit /\ NotifyInit /\ TimerInit /\ LockInit

Init ==
    MempoolInit /\ TagInit /\ PipeInit /\ SignalInit /\ FlowInit /\ SideInit

\* the tracker under every operation, one fee rate, ages up to MaxTime
Next ==
    \/ \E t \in Txids : AddTx(t, Rat(0, 1))
    \/ \E t \in Txids, r \in Reasons : RemoveTx(t, r)
    \/ \E o \in Txids : \E n \in Txids \ {o} : RecordReplacement(o, n)
    \/ \E s \in SUBSET Txids : ConfirmTxids(s)
    \/ \E a \in 0..(MaxTime + 1) : PruneOld(a)
    \/ Tick(MaxTime)

Spec == Init /\ [][Next]_vars

\* the tracker under every operation, every fee rate, ages up to HistMaxTime
NextHist ==
    \/ \E t \in Txids, f \in FeeRates : AddTx(t, f)
    \/ \E t \in Txids, r \in Reasons : RemoveTx(t, r)
    \/ \E o \in Txids : \E n \in Txids \ {o} : RecordReplacement(o, n)
    \/ \E t \in Txids : ConfirmTxids({t})
    \/ \E a \in 0..(HistMaxTime + 1) : PruneOld(a)
    \/ Tick(HistMaxTime)

SpecHist == Init /\ [][NextHist]_vars

\* the confidences and sources of the tags a store holds from earlier runs
StoredKinds ==
    {[confidence |-> Rat(9, 10), source |-> "csv"],
     [confidence |-> Rat(1, 2), source |-> "csv"],
     [confidence |-> Rat(63, 100), source |-> "cluster_heuristic"]}

StoredTags(a) ==
    {AddressTag(a, e.entity, e.entity_type, k.confidence, k.source) :
        e \in Entities, k \in StoredKinds}

\* the stores at program start: any subset of the addresses tagged
TagStores ==
    UNION {{db \in [S -> UNION {StoredTags(a) : a \in Addresses}] :
                \A a \in S : db[a].address = a} : S \in SUBSET Addresses}

\* cluster expansion as a function of the index and of the transaction: the
\* index is built from a store of an earlier run, then expand_from_tx is
\* called for one transaction, up to MaxCalls times
InitExpand ==
    /\ MempoolInit
    /\ map = EmptyMap
    /\ dbTags \in TagStores
    /\ tagPhase = "startup"
    /\ txInputs \in Txs
    /\ tagLast = [op |-> "open"]
    /\ PipeInit
    /\ FlowInit
    /\ SideInit
    /\ SignalInit

NextExpand ==
    \/ \E ok \in BOOLEAN : LoadFromDb(ok)
    \/ \E failed \in SUBSET Addresses : Expand(failed)

SpecExpand == InitExpand /\ [][NextExpand]_vars

\* the pipeline turns to the next transaction: its input addresses and its
\* CoinJoin flag are those of a later call of expand_from_tx
NextTransaction(tx) ==
    /\ tagPhase = "running"
    /\ tx # txInputs
    /\ txInputs' = tx
    /\ tagLast' = [op |-> "next_tx"]
    /\ UNCHANGED <<map, dbTags, tagPhase, mempoolVars, pipeVars,
                   signalVars, sideVars, flowVars>>

\* the transactions of the hydrated index: overlapping input lists, one of
\* them a CoinJoin
ClusterTxs ==
    {[inputs |-> <<"a", "b">>, is_coinjoin |-> FALSE],
     [inputs |-> <<"b", "c">>, is_coinjoin |-> FALSE],
     [inputs |-> <<"c", "a", "b">>, is_coinjoin |-> FALSE],
     [inputs |-> <<"a", "c">>, is_coinjoin |-> TRUE]}

\* the index hydrated from a store of an earlier run, then the cluster
\* expansions of a sequence of transactions, upserts failing or not
InitCluster ==
    /\ MempoolInit
    /\ map = EmptyMap
    /\ dbTags \in TagStores
    /\ tagPhase = "startup"
    /\ txInputs \in ClusterTxs
    /\ tagLast = [op |-> "open"]
    /\ PipeInit
    /\ FlowInit
    /\ SideInit
    /\ SignalInit

NextCluster ==
    \/ \E ok \in BOOLEAN : LoadFromDb(ok)
    \/ \E failed \in SUBSET Addresses : Expand(failed)
    \/ \E tx \in ClusterTxs : NextTransaction(tx)

SpecCluster == InitCluster /\ [][NextCluster]_vars

\* the transactions of the store model
StoreTxs ==
    {[inputs |-> <<"a", "b", "c">>, is_coinjoin |-> FALSE],
     [inputs |-> <<"c", "b">>, is_coinjoin |-> FALSE],
     [inputs |-> <<"b", "a">>, is_coinjoin |-> TRUE]}

\* the tag store from an empty store on: inserts and the CSV load at startup,
\* then the index and the cluster expansions of one transaction
InitTags ==
    /\ MempoolInit
    /\ map = EmptyMap
    /\ dbTags = EmptyMap
    /\ tagPhase = "startup"
    /\ txInputs \in StoreTxs
    /\ tagLast = [op |-> "open"]
    /\ PipeInit
    /\ FlowInit
    /\ SideInit
    /\ SignalInit

NextTags ==
    \/ \E row \in CsvRows : InsertTag(row)
    \/ \E rows \in CsvFiles : \E f \in 1..(Len(rows) + 1) : LoadCsv(rows, f)
    \/ \E ok \in BOOLEAN : LoadFromDb(ok)
    \/ \E failed \in SUBSET Addresses : Expand(failed)

SpecTags == InitTags /\ [][NextTags]_vars

\* the pipeline over MaxTxs relayed transactions: prevout resolution against
\* the cache and the node, then the assembly of the AnalyzedTx
NextPipe ==
    \/ \E tx \in RelayedTxs :
          /\ pipe.stage = "idle"
          /\ events = << >>
          /\ Ingest(TxAddedEvent(nextSeq, <<tx>>))
    \/ TxAdded
    \/ \E db_ok \in BOOLEAN : ResolvePrevout(db_ok)
    \/ \E result \in {"Ok", "NoValue", "Err"}, db_ok \in BOOLEAN :
          RpcReturns(result, db_ok)
    \/ Assemble(Rat(5, 1))

SpecPipe == Init /\ [][NextPipe]_vars

\* the pipeline over TxAdded events alone, of raw bytes that parse and of
\* raw bytes that do not, one event at a time
NextDecode ==
    \/ \E tx \in RelayedTxs :
          /\ pipe.stage = "idle"
          /\ events = << >>
          /\ Ingest(TxAddedEvent(nextSeq, <<tx>>))
    \/ /\ pipe.stage = "idle"
       /\ events = << >>
       /\ Ingest(TxAddedEvent(nextSeq, << >>))
    \/ TxAdded
    \/ ResolvePrevout(TRUE)
    \/ \E result \in {"Ok", "Err"} : RpcReturns(result, TRUE)
    \/ Assemble(Rat(5, 1))

SpecDecode == Init /\ [][NextDecode]_vars

\* the events of the flow model: transactions of one input, raw bytes that
\* do not parse, removals, blocks
FlowTxs ==
    {tx \in RelayedTxs : tx.inputs = <<"p1:0">> /\ tx.total_output_value = 1}

FlowEvents(seq) ==
    {TxAddedEvent(seq, <<tx>>) : tx \in FlowTxs}
    \cup {TxAddedEvent(seq, << >>)}
    \cup {TxRemovedEvent(seq, txid, "Unknown") : txid \in Txids}
    \cup {BlockConnectedEvent(seq, 0), BlockDisconnectedEvent(seq)}

\* the pipeline between the subscriber and the UI: events of every kind, the
\* UI dropping its receive end at any moment
NextFlow ==
    \/ \E e \in FlowEvents(nextSeq) : Ingest(e)
    \/ DropSink
    \/ TxAdded
    \/ \E db_ok \in BOOLEAN : ResolvePrevout(db_ok)
    \/ \E result \in {"Ok", "Err"} : RpcReturns(result, TRUE)
    \/ \E composite \in Composites : Assemble(composite)
    \/ BlockConnected
    \/ BlockDisconnected
    \/ TxRemoved

SpecFlow == Init /\ [][NextFlow]_vars

(***************************************************************************)
(* SharedDatabase seen with its mutex: every method takes the lock of       *)
(* inner in its first line and drops the guard when it returns.  The        *)
(* pipeline calls get_utxo and cache_utxo in resolve_prevout, with the      *)
(* await of the RPC in between; the UI calls get_signals_above_score and    *)
(* get_signal_count in refresh_history.                                     *)
(***************************************************************************)
\* a guard that outlives the method that took it
GuardKept(holder) == holder

\* the mutex when a method of SharedDatabase returns: its guard is dropped
GuardDropped(holder) == "free"

\* the pipeline enters resolve_prevout for a prevout
ResolverStarts(key) ==
    /\ resolver.stage = "idle"
    /\ resolver' = [stage |-> "get_utxo", key |-> key]
    /\ UNCHANGED <<dbLock, poller, mempoolVars, tagVars, pipeVars, signalVars,
                   flowVars, storeVars, zmqVars, notifyVars, timerVars>>

\* self.inner.lock() in get_utxo or cache_utxo: blocks while the guard is
\* held elsewhere
ResolverLocks ==
    /\ resolver.stage \in {"get_utxo", "cache_utxo"}
    /\ dbLock = "free"
    /\ dbLock' = "pipeline"
    /\ resolver' = [resolver EXCEPT !.stage = IF resolver.stage = "get_utxo"
                                              THEN "in_get_utxo"
                                              ELSE "in_cache_utxo"]
    /\ UNCHANGED <<poller, mempoolVars, tagVars, pipeVars, signalVars,
                   flowVars, storeVars, zmqVars, notifyVars, timerVars>>

\* get_utxo returns: a hit ends resolve_prevout, a miss or an error leads
\* to rpc.getrawtransaction(..).await
ResolverGetUtxoReturns(db_ok) ==
    /\ resolver.stage = "in_get_utxo"
    /\ dbLock' = GuardDropped(dbLock)
    /\ resolver' = IF GetUtxo(utxo_cache, resolver.key, db_ok).kind = "Some"
                   THEN [stage |-> "idle"]
                   ELSE [stage |-> "rpc_await", key |-> resolver.key]
    /\ UNCHANGED <<poller, mempoolVars, tagVars, pipeVars, signalVars,
                   flowVars, storeVars, zmqVars, notifyVars, timerVars>>

\* the reply of the node arrives: Ok leads to cache_utxo, Err ends
\* resolve_prevout
ResolverRpcReturns(result, value) ==
    /\ resolver.stage = "rpc_await"
    /\ resolver' = IF result = "Ok"
                   THEN [stage |-> "cache_utxo", key |-> resolver.key,
                         value |-> value]
                   ELSE [stage |-> "idle"]
    /\ UNCHANGED <<dbLock, poller, mempoolVars, tagVars, pipeVars, signalVars,
                   flowVars, storeVars, zmqVars, notifyVars, timerVars>>

\* cache_utxo returns, and resolve_prevout with it
ResolverCacheUtxoReturns(db_ok) ==
    /\ resolver.stage = "in_cache_utxo"
    /\ utxo_cache' = CacheUtxo(utxo_cache, resolver.key, resolver.value, db_ok)
    /\ dbLock' = GuardDropped(dbLock)
    /\ resolver' = [stage |-> "idle"]
    /\ UNCHANGED <<rpcCalls, pipe, analyzed, tx_count, poller, mempoolVars,
                   tagVars, signalVars, flowVars, storeVars, zmqVars,
                   notifyVars, timerVars>>

\* the UI enters refresh_history
PollerStarts ==
    /\ poller.stage = "idle"
    /\ poller' = [stage |-> "get_signals_above_score"]
    /\ UNCHANGED <<dbLock, resolver, mempoolVars, tagVars, pipeVars,
                   signalVars, flowVars, storeVars, zmqVars, notifyVars,
                   timerVars>>

\* self.inner.lock() in get_signals_above_score or get_signal_count
PollerLocks ==
    /\ poller.stage \in {"get_signals_above_score", "get_signal_count"}
    /\ dbLock = "free"
    /\ dbLock' = "poller"
    /\ poller' = [stage |-> IF poller.stage = "get_signals_above_score"
                            THEN "in_get_signals_above_score"
                            ELSE "in_get_signal_count"]
    /\ UNCHANGED <<resolver, mempoolVars, tagVars, pipeVars, signalVars,
                   flowVars, storeVars, zmqVars, notifyVars, timerVars>>

\* the method of the poller returns: get_signal_count follows
\* get_signals_above_score
PollerReturns ==
    /\ poller.stage \in {"in_get_signals_above_score", "in_get_signal_count"}
    /\ dbLock' = GuardDropped(dbLock)
    /\ poller' = [stage |-> IF poller.stage = "in_get_signals_above_score"
                            THEN "get_signal_count"
                            ELSE "idle"]
    /\ UNCHANGED <<resolver, mempoolVars, tagVars, pipeVars, signalVars,
                   flowVars, storeVars, zmqVars, notifyVars, timerVars>>

(***************************************************************************)
(* The Notifier under calls of notify from several threads.  A call runs   *)
(* the two tests of notify, then check_cooldown under the mutex of         *)
(* last_sent, then send_notification.                                      *)
(***************************************************************************)
MaxInstant == 3

MaxSent == 3

\* Instant::now() is monotonic
InstantPasses ==
    /\ instant < MaxInstant
    /\ instant' = instant + 1
    /\ UNCHANGED <<notifier, notifyCalls, sent, mempoolVars, tagVars, pipeVars,
                   signalVars, flowVars, storeVars, zmqVars, timerVars,
                   lockVars>>

\* the calls of notify that have not returned
Running == {t \in Threads : notifyCalls[t].stage # "idle"}

\* notify up to the call of check_cooldown: disabled or below min_score
\* returns false
Notify(t, composite_score) ==
    /\ notifyCalls[t].stage = "idle"
    /\ Len(sent) + Cardinality(Running) < MaxSent
    /\ notifyCalls' =
           [notifyCalls EXCEPT ![t] =
               IF ~notifier.enabled \/ FLt(composite_score, notifier.min_score)
               THEN [stage |-> "returned", result |-> FALSE,
                     composite_score |-> composite_score]
               ELSE [stage |-> "check_cooldown",
                     composite_score |-> composite_score]]
    /\ UNCHANGED <<notifier, sent, instant, mempoolVars, tagVars, pipeVars,
                   signalVars, flowVars, storeVars, zmqVars, timerVars,
                   lockVars>>

\* check_cooldown that moves last_sent only at the first notification
LastSentFirstOnly(prev, at) == IF prev = << >> THEN <<at>> ELSE prev

\* check_cooldown passes: *last = Some(now)
LastSent(prev, at) == <<at>>

\* now.duration_since(prev) < self.cooldown
InCooldown(prev, at, cooldown) == prev # << >> /\ at - prev[1] < cooldown

\* check_cooldown, under the lock of last_sent from its first line to its
\* return
CheckCooldown(t) ==
    /\ notifyCalls[t].stage = "check_cooldown"
    /\ IF InCooldown(notifier.last_sent, instant, notifier.cooldown)
       THEN /\ notifyCalls' =
                   [notifyCalls EXCEPT ![t] =
                       [stage |-> "returned", result |-> FALSE,
                        composite_score |-> notifyCalls[t].composite_score]]
            /\ UNCHANGED notifier
       ELSE /\ notifyCalls' =
                   [notifyCalls EXCEPT ![t] =
                       [stage |-> "send_notification", at |-> instant,
                        composite_score |-> notifyCalls[t].composite_score]]
            /\ notifier' =
                   [notifier EXCEPT
                       !.last_sent = LastSent(notifier.last_sent, instant)]
    /\ UNCHANGED <<sent, instant, mempoolVars, tagVars, pipeVars, signalVars,
                   flowVars, storeVars, zmqVars, timerVars, lockVars>>

\* send_notification, and notify returns true
SendNotification(t) ==
    /\ notifyCalls[t].stage = "send_notification"
    /\ sent' = Append(sent, [at |-> notifyCalls[t].at, thread |-> t,
                             composite_score |->
                                 notifyCalls[t].composite_score])
    /\ notifyCalls' =
           [notifyCalls EXCEPT ![t] =
               [stage |-> "returned", result |-> TRUE,
                composite_score |-> notifyCalls[t].composite_score]]
    /\ UNCHANGED <<notifier, instant, mempoolVars, tagVars, pipeVars,
                   signalVars, flowVars, storeVars, zmqVars, timerVars,
                   lockVars>>

\* the caller has the result of notify
NotifyReturns(t) ==
    /\ notifyCalls[t].stage = "returned"
    /\ notifyCalls' = [notifyCalls EXCEPT ![t] = [stage |-> "idle"]]
    /\ UNCHANGED <<notifier, sent, instant, mempoolVars, tagVars, pipeVars,
                   signalVars, flowVars, storeVars, zmqVars, timerVars,
                   lockVars>>

\* notifiers enabled and disabled, with min_score 60, with no cooldown and
\* with a cooldown of two units of the clock
NotifierConfigs ==
    [enabled : BOOLEAN, min_score : {Rat(60, 1)}, cooldown : {0, 2},
     last_sent : {<< >>}]

NotifyScores == {Rat(50, 1), Rat(60, 1), F64_NAN}

InitNotify ==
    /\ MempoolInit
    /\ TagInit
    /\ PipeInit
    /\ SignalInit
    /\ FlowInit
    /\ StoreInit
    /\ ZmqInit
    /\ TimerInit
    /\ LockInit
    /\ notifier \in NotifierConfigs
    /\ notifyCalls = [t \in Threads |-> [stage |-> "idle"]]
    /\ sent = << >>
    /\ instant = 0

NextNotify ==
    \/ InstantPasses
    \/ \E t \in Threads, composite_score \in NotifyScores :
          Notify(t, composite_score)
    \/ \E t \in Threads : CheckCooldown(t)
    \/ \E t \in Threads : SendNotification(t)
    \/ \E t \in Threads : NotifyReturns(t)

SpecNotify == InitNotify /\ [][NextNotify]_vars

(***************************************************************************)
(* The sequence topic of start_zmq_subscriber.  A frame is the multipart   *)
(* message of recv_multipart: the number of its parts, its topic, and the  *)
(* length of its body with the hash, the label and the counter the body    *)
(* carries.  The counter is a u64, modelled at a width of two bits.        *)
(***************************************************************************)
U64_MAX == 3

MaxBlocks == 2

SEQUENCE_BODY_LEN == 41

Labels == {"A", "R", "C", "D", "X"}

Frame(parts, topic, body_len, hash, label, counter) ==
    [parts |-> parts, topic |-> topic, body_len |-> body_len, hash |-> hash,
     label |-> label, counter |-> counter]

\* the guard of the match arm: Ok(msg) if msg.len() >= 2 && msg[0] == b"sequence"
Accepted(f) == f.parts >= 2 /\ f.topic = "sequence"

\* parse_sequence_message returns Some
Parsed(f) == f.body_len = SEQUENCE_BODY_LEN

\* prev + 1 of the gap check overflows
Overflows(last_seq) == last_seq # << >> /\ last_seq[1] = U64_MAX

\* prev + 1 in the build without overflow checks
WrappingSucc(prev) == (prev + 1) % (U64_MAX + 1)

\* the warning of the missed-event detection is logged
GapDetected(last_seq, counter) ==
    last_seq # << >> /\ counter # WrappingSucc(last_seq[1])

\* the event the match on the label sends, if any
EventOf(f, seq) ==
    CASE f.label = "R" -> <<TxRemovedEvent(seq, f.hash, "Unknown")>>
      [] f.label = "C" -> <<BlockConnectedEvent(seq, 0)>>
      [] f.label = "D" -> <<BlockDisconnectedEvent(seq)>>
      [] OTHER -> << >>

\* the warnings the handling of a frame logs
Warnings(f, last_seq) ==
    IF ~Accepted(f) THEN {"format"}
    ELSE IF ~Parsed(f) THEN {"length"}
    ELSE (IF GapDetected(last_seq, f.counter) THEN {"gap"} ELSE {})
         \cup (IF f.label \in {"A", "R", "C", "D"} THEN {} ELSE {"label"})

\* a frame arrives at the sequence socket
FrameArrives(f) ==
    /\ zmq.status = "running"
    /\ zmq.socket = << >>
    /\ zmq' = [zmq EXCEPT !.socket = <<f>>]
    /\ UNCHANGED <<inbox, mempoolVars, tagVars, pipeVars, signalVars,
                   flowVars, storeVars, notifyVars, timerVars, lockVars>>

\* the receiver of the event channel is dropped: run_pipeline has returned
ChannelClosed == pipe.stage = "stopped"

\* a send that ignores its error
SendFailedIgnored(status) == status

\* tx.send(..).is_err(): "Channel closed, stopping ZMQ subscriber", return
SendFailed(status) == "exited"

\* one pass of the loop with the sequence socket readable: recv_multipart,
\* parse, gap check, last_seq, and the send the label asks for; with
\* overflow checks compiled in, prev + 1 panics at the largest counter
SequenceFrame(overflow_checks) ==
    /\ zmq.status = "running"
    /\ zmq.socket # << >>
    /\ LET f == zmq.socket[1]
           handled == Accepted(f) /\ Parsed(f)
           panics == handled /\ Overflows(zmq.last_seq) /\ overflow_checks
           event == IF handled /\ ~panics THEN EventOf(f, nextSeq) ELSE << >>
       IN  /\ event # << >> /\ ~ChannelClosed
               => nextSeq <= MaxEvents /\ Len(events) < MaxQueue
           /\ zmq' = [status |-> IF panics THEN "panicked"
                                 ELSE IF event # << >> /\ ChannelClosed
                                      THEN SendFailed(zmq.status)
                                      ELSE "running",
                      last_seq |-> IF handled /\ ~panics THEN <<f.counter>>
                                   ELSE zmq.last_seq,
                      socket |-> << >>,
                      warnings |-> IF panics THEN {}
                                   ELSE Warnings(f, zmq.last_seq)]
           /\ IF event # << >> /\ ~ChannelClosed
              THEN /\ events' = Send(events, event[1])
                   /\ nextSeq' = nextSeq + 1
              ELSE UNCHANGED <<events, nextSeq>>
    /\ UNCHANGED <<inbox, sink, sinkOpen, signals, block_count, mempoolVars,
                   tagVars, pipeVars, signalVars, storeVars, notifyVars,
                   timerVars, lockVars>>

HASH_LEN == 32

\* a frame arrives at the rawtx socket: its parts, its topic, and what
\* parse_raw_tx will make of its body
RawtxArrives(parts, topic, parsed) ==
    /\ zmq.status = "running"
    /\ inbox.rawtx = << >>
    /\ inbox' = [inbox EXCEPT !.rawtx = <<[parts |-> parts, topic |-> topic,
                                          parsed |-> parsed]>>]
    /\ UNCHANGED <<zmq, mempoolVars, tagVars, pipeVars, signalVars, flowVars,
                   storeVars, notifyVars, timerVars, lockVars>>

\* a frame arrives at the hashblock socket
HashblockArrives(parts, topic, body_len) ==
    /\ zmq.status = "running"
    /\ inbox.hashblock = << >>
    /\ inbox' = [inbox EXCEPT !.hashblock = <<[parts |-> parts, topic |-> topic,
                                              body_len |-> body_len]>>]
    /\ UNCHANGED <<zmq, mempoolVars, tagVars, pipeVars, signalVars, flowVars,
                   storeVars, notifyVars, timerVars, lockVars>>

\* the send of one event by the subscriber: on the channel, or failed
SendsEvent(event) ==
    /\ ~ChannelClosed => nextSeq <= MaxEvents /\ Len(events) < MaxQueue
    /\ IF ChannelClosed
       THEN /\ zmq' = [zmq EXCEPT !.status = SendFailed(zmq.status)]
            /\ UNCHANGED <<events, nextSeq>>
       ELSE /\ events' = Send(events, event)
            /\ nextSeq' = nextSeq + 1
            /\ UNCHANGED zmq

\* one pass of the loop with the rawtx socket readable: TxAdded is sent
\* for a frame of two parts or more under the topic rawtx
RawtxFrame ==
    /\ zmq.status = "running"
    /\ inbox.rawtx # << >>
    /\ inbox' = [inbox EXCEPT !.rawtx = << >>]
    /\ IF inbox.rawtx[1].parts >= 2 /\ inbox.rawtx[1].topic = "rawtx"
       THEN SendsEvent(TxAddedEvent(nextSeq, inbox.rawtx[1].parsed))
       ELSE UNCHANGED <<zmq, events, nextSeq>>
    /\ UNCHANGED <<sink, sinkOpen, signals, block_count, mempoolVars,
                   tagVars, pipeVars, signalVars, storeVars, notifyVars,
                   timerVars, lockVars>>

\* one pass of the loop with the hashblock socket readable: BlockConnected
\* is sent for a frame under the topic hashblock with a body of 32 bytes
HashblockFrame ==
    /\ zmq.status = "running"
    /\ inbox.hashblock # << >>
    /\ inbox' = [inbox EXCEPT !.hashblock = << >>]
    /\ IF /\ inbox.hashblock[1].parts >= 2
          /\ inbox.hashblock[1].topic = "hashblock"
          /\ inbox.hashblock[1].body_len = HASH_LEN
       THEN SendsEvent(BlockConnectedEvent(nextSeq, 0))
       ELSE UNCHANGED <<zmq, events, nextSeq>>
    /\ UNCHANGED <<sink, sinkOpen, signals, block_count, mempoolVars,
                   tagVars, pipeVars, signalVars, storeVars, notifyVars,
                   timerVars, lockVars>>

\* the node connects a block and publishes it on both topics: the hash on
\* hashblock and the hash with label C on sequence
NodeConnectsBlock(counter) ==
    /\ zmq.status = "running"
    /\ inbox.hashblock = << >>
    /\ zmq.socket = << >>
    /\ inbox.blocks < MaxBlocks
    /\ inbox' = [inbox EXCEPT
                    !.hashblock = <<[parts |-> 2, topic |-> "hashblock",
                                     body_len |-> HASH_LEN]>>,
                    !.blocks = inbox.blocks + 1]
    /\ zmq' = [zmq EXCEPT
                  !.socket = <<Frame(2, "sequence", SEQUENCE_BODY_LEN, "b1",
                                     "C", counter)>>]
    /\ UNCHANGED <<mempoolVars, tagVars, pipeVars, signalVars, flowVars,
                   storeVars, notifyVars, timerVars, lockVars>>

\* the frames of the sequence socket: every label and counter in a frame
\* of two parts, removals of either hash, a frame of three parts, and
\* frames with one part, another topic or a body of 33 bytes
Frames ==
    {Frame(2, "sequence", SEQUENCE_BODY_LEN, "t1", l, c) :
        l \in Labels, c \in 0..U64_MAX}
    \cup {Frame(2, "sequence", SEQUENCE_BODY_LEN, "t2", "R", c) :
             c \in {0, U64_MAX}}
    \cup {Frame(3, "sequence", SEQUENCE_BODY_LEN, "t1", "R", 1),
          Frame(1, "sequence", SEQUENCE_BODY_LEN, "t1", "R", 1),
          Frame(2, "rawtx", SEQUENCE_BODY_LEN, "t1", "R", 1),
          Frame(2, "sequence", 33, "t1", "C", 1)}

\* the subscriber with the pipeline behind its channel: one transaction
\* arrives on rawtx, the UI may drop its receiver, which ends run_pipeline
\* at the NewTx send and closes the event channel
ZmqTx == CHOOSE tx \in FlowTxs : TRUE

NextZmq ==
    \/ \E f \in Frames : FrameArrives(f)
    \/ \E overflow_checks \in BOOLEAN : SequenceFrame(overflow_checks)
    \/ /\ nextSeq = 1
       /\ Ingest(TxAddedEvent(nextSeq, <<ZmqTx>>))
    \/ DropSink
    \/ TxAdded
    \/ ResolvePrevout(TRUE)
    \/ RpcReturns("Ok", TRUE)
    \/ Assemble(Rat(5, 1))
    \/ TxRemoved
    \/ BlockConnected
    \/ BlockDisconnected

SpecZmq == Init /\ [][NextZmq]_vars

\* the subscriber on its three sockets with the pipeline behind the
\* channel: blocks the node publishes on hashblock and on sequence,
\* transactions on rawtx, removals and additions on sequence, frames that
\* are not well-formed; the UI may drop its receiver
IngestFrames ==
    {Frame(2, "sequence", SEQUENCE_BODY_LEN, "t1", l, c) :
        l \in {"A", "R", "D"}, c \in {1, U64_MAX}}

NextIngest ==
    \/ \E counter \in {1, U64_MAX} : NodeConnectsBlock(counter)
    \/ \E f \in IngestFrames : FrameArrives(f)
    \/ \E parts \in {1, 2} : RawtxArrives(parts, "rawtx", <<ZmqTx>>)
    \/ HashblockArrives(2, "hashblock", HASH_LEN + 1)
    \/ \E overflow_checks \in BOOLEAN : SequenceFrame(overflow_checks)
    \/ RawtxFrame
    \/ HashblockFrame
    \/ DropSink
    \/ TxAdded
    \/ ResolvePrevout(TRUE)
    \/ RpcReturns("Ok", TRUE)
    \/ Assemble(Rat(5, 1))
    \/ TxRemoved
    \/ BlockConnected
    \/ BlockDisconnected

SpecIngest == Init /\ [][NextIngest]_vars

\* the pipeline with its clocks: the time of Utc::now() runs past the grace
\* period of prune_old, the stats and prune intervals pass, the subscriber
\* sends at most MaxEvents events, of any kind, and may stop sending at any
\* moment; the UI keeps its receive end
\* the grace period of prune_old passes on the clock of Utc::now()
GracePeriodPasses ==
    /\ now <= MaxTime
    /\ now' = now + PRUNE_MAX_AGE + 1
    /\ UNCHANGED <<entries, replacement_chain, last, tagVars, pipeVars,
                   signalVars, flowVars, sideVars>>

TimedEvents(seq) ==
    {TxAddedEvent(seq, <<tx>>) : tx \in FlowTxs}
    \cup {TxRemovedEvent(seq, txid, "Unknown") : txid \in Txids}
    \cup {BlockConnectedEvent(seq, 0)}

NextTimed ==
    \/ \E e \in TimedEvents(nextSeq) : Ingest(e)
    \/ TxAdded
    \/ ResolvePrevout(TRUE)
    \/ RpcReturns("Ok", TRUE)
    \/ Assemble(Rat(5, 1))
    \/ TxRemoved
    \/ BlockConnected
    \/ GracePeriodPasses
    \/ StatsIntervalPasses
    \/ PruneIntervalPasses

\* the loop of run_pipeline runs whenever an event is in the channel, the
\* node answers every call, and time passes; the subscriber is not bound
\* to send
FairTimed ==
    /\ WF_vars(TxAdded)
    /\ WF_vars(ResolvePrevout(TRUE))
    /\ WF_vars(RpcReturns("Ok", TRUE))
    /\ WF_vars(Assemble(Rat(5, 1)))
    /\ WF_vars(TxRemoved)
    /\ WF_vars(BlockConnected)
    /\ WF_vars(GracePeriodPasses)
    /\ WF_vars(StatsIntervalPasses)
    /\ WF_vars(PruneIntervalPasses)

SpecTimed == Init /\ [][NextTimed]_vars /\ FairTimed

\* the store called directly: keys that share a txid or a vout, two values,
\* batches of rows the table takes and of rows it refuses
CacheKeys == {"p1:0", "p1:1", "p2:1"}

CacheValues == {1, 2}

BatchEntries ==
    {SignalBatchEntry(txid, score) :
        txid \in Txids, score \in {Rat(80, 1), F64_NAN}}

Batches == UNION {[1..n -> BatchEntries] : n \in 0..MaxBatch}

NextStore ==
    \/ \E key \in CacheKeys, value \in CacheValues, db_ok \in BOOLEAN :
          CacheUtxoCall(key, value, db_ok)
    \/ \E key \in CacheKeys, db_ok \in BOOLEAN : GetUtxoCall(key, db_ok)
    \/ \E batch \in Batches, io_fail_at \in 0..(MaxBatch + 1) :
          /\ io_fail_at <= Len(batch) + 1
          /\ StoreSignalsBatchCall(batch, io_fail_at)

SpecStore == Init /\ [][NextStore]_vars

\* resolve_prevout and refresh_history side by side, the store answering
\* or failing, the node replying Ok or Err
NextLock ==
    \/ \E key \in CacheKeys : ResolverStarts(key)
    \/ ResolverLocks
    \/ \E db_ok \in BOOLEAN : ResolverGetUtxoReturns(db_ok)
    \/ \E result \in {"Ok", "Err"}, value \in CacheValues :
          ResolverRpcReturns(result, value)
    \/ \E db_ok \in BOOLEAN : ResolverCacheUtxoReturns(db_ok)
    \/ PollerStarts
    \/ PollerLocks
    \/ PollerReturns

SpecLock == Init /\ [][NextLock]_vars

(***************************************************************************)
(* The scoring engine as a function of the transaction and of the          *)
(* configuration.                                                          *)
(***************************************************************************)
\* the exchange fields of an AnalyzedTx: no match, an output matched with
\* confidence 0.9, one matched with a confidence above 1, an input matched
ExchangeFlows ==
    {[to_exchange |-> FALSE, to_exchange_confidence |-> Rat(0, 1),
      from_exchange |-> FALSE, from_exchange_confidence |-> Rat(0, 1)],
     [to_exchange |-> TRUE, to_exchange_confidence |-> Rat(9, 10),
      from_exchange |-> FALSE, from_exchange_confidence |-> Rat(0, 1)],
     [to_exchange |-> TRUE, to_exchange_confidence |-> Rat(3, 2),
      from_exchange |-> FALSE, from_exchange_confidence |-> Rat(0, 1)],
     [to_exchange |-> FALSE, to_exchange_confidence |-> Rat(0, 1),
      from_exchange |-> TRUE, from_exchange_confidence |-> Rat(1, 1)]}

\* the CoinJoin fields of an AnalyzedTx
CoinJoinFlags ==
    {[is_coinjoin |-> FALSE, coinjoin_confidence |-> Rat(0, 1)],
     [is_coinjoin |-> TRUE, coinjoin_confidence |-> Rat(1, 1)]}

\* the transactions scored: each rule at 0 and at a second value; an Option
\* is << >> or <<value>>
ScoreTxs ==
    {[total_input_value |-> v,
      oldest_input_age_days |-> a,
      coin_days_destroyed |-> c,
      input_count |-> i,
      fee_rate |-> f,
      is_rbf_signaling |-> r,
      to_exchange |-> e.to_exchange,
      to_exchange_confidence |-> e.to_exchange_confidence,
      from_exchange |-> e.from_exchange,
      from_exchange_confidence |-> e.from_exchange_confidence,
      is_coinjoin |-> j.is_coinjoin,
      coinjoin_confidence |-> j.coinjoin_confidence] :
        v \in {0, 1000000000}, a \in {<< >>, <<365>>},
        c \in {<< >>, <<Rat(1000, 1)>>}, i \in {0, 20},
        f \in {Rat(0, 1), Rat(50, 1)}, r \in BOOLEAN,
        e \in ExchangeFlows, j \in CoinJoinFlags}

\* the values a weight of the configuration may have: an f64 of the TOML file
WeightValues ==
    {Rat(0, 1), Rat(1, 1), Rat(-10, 1),
     F64_INFINITY, F64_NEG_INFINITY, F64_NAN}

\* SignalConfig.weights: no override, every rule overridden to 0, or one rule
\* overridden
WeightConfigs ==
    {EmptyMap}
    \cup {[n \in {DefaultRules[i] : i \in 1..Len(DefaultRules)} |-> Rat(0, 1)]}
    \cup {[n \in {DefaultRules[i]} |-> w] :
             i \in 1..Len(DefaultRules), w \in WeightValues}

\* SignalConfig.alert_thresholds: the defaults and one other configuration
ThresholdConfigs ==
    {DefaultThresholds,
     [critical |-> Rat(50, 1), high |-> Rat(25, 1), medium |-> Rat(10, 1)]}

\* the lists compute_composite is called with directly
ScoreLists ==
    {<< >>,
     <<RuleScore("test", Rat(1, 1), Rat(10, 1))>>,
     <<RuleScore("test", Rat(1, 2), Rat(10, 1))>>,
     <<RuleScore("a", Rat(1, 1), Rat(6, 1)),
       RuleScore("b", Rat(1, 2), Rat(4, 1))>>,
     <<RuleScore("a", Rat(1, 1), Rat(10, 1)),
       RuleScore("cj", Rat(1, 1), Rat(-6, 1))>>,
     <<RuleScore("a", Rat(0, 1), Rat(10, 1)),
       RuleScore("cj", Rat(1, 1), Rat(-6, 1))>>,
     <<RuleScore("a", Rat(1, 1), Rat(0, 1))>>}

ScoreCalls ==
    [stage : {"input"}, tx : ScoreTxs, weights : WeightConfigs,
     thresholds : ThresholdConfigs]
    \cup [stage : {"list"}, scores : ScoreLists]

InitScore ==
    /\ MempoolInit
    /\ TagInit
    /\ PipeInit
    /\ FlowInit
    /\ SideInit
    /\ sc \in ScoreCalls
    /\ al = [stage |-> "idle"]
    /\ cj = [stage |-> "idle"]

NextScore ==
    \/ Score
    \/ Composite

SpecScore == InitScore /\ [][NextScore]_vars

\* the ages (Utc::now() - oldest_input_time).num_days() of the transactions
\* the rules are scored on: none, a year, and oldest_input_time up to
\* MaxFutureDays days in the future
MaxFutureDays == 400

AgeStep == 100

InputAges ==
    {<< >>, <<365>>}
    \cup {<<-(k * AgeStep)>> : k \in 0..(MaxFutureDays \div AgeStep)}

\* the transactions the rules are scored on: every age, confidences inside
\* and outside [0, 1]
RuleTxs ==
    {[total_input_value |-> v,
      oldest_input_age_days |-> a,
      coin_days_destroyed |-> c,
      input_count |-> 20,
      fee_rate |-> Rat(50, 1),
      is_rbf_signaling |-> r,
      to_exchange |-> to,
      to_exchange_confidence |-> conf,
      from_exchange |-> ~to,
      from_exchange_confidence |-> conf,
      is_coinjoin |-> j,
      coinjoin_confidence |-> conf] :
        v \in {0, 1000000000}, a \in InputAges,
        c \in {<< >>, <<Rat(1000, 1)>>}, r \in BOOLEAN, to \in BOOLEAN,
        j \in BOOLEAN, conf \in {Rat(-1, 2), Rat(9, 10), Rat(3, 2)}}

InitRules ==
    /\ MempoolInit
    /\ TagInit
    /\ PipeInit
    /\ FlowInit
    /\ SideInit
    /\ sc \in [stage : {"input"}, tx : RuleTxs,
                weights : {EmptyMap, [n \in {"utxo_age"} |-> Rat(-10, 1)]},
                thresholds : {DefaultThresholds}]
    /\ al = [stage |-> "idle"]
    /\ cj = [stage |-> "idle"]

NextRules == Score

SpecRules == InitRules /\ [][NextRules]_vars

\* thresholds in any order, scores at, between and beside them, and NaN
ThresholdValues == {Rat(20, 1), Rat(40, 1), Rat(60, 1), Rat(80, 1)}

AlertScores ==
    {Rat(0, 1), Rat(20, 1), Rat(79, 2), Rat(40, 1), Rat(119, 2), Rat(60, 1),
     Rat(159, 2), Rat(80, 1), Rat(100, 1), F64_NAN}

AlertCalls ==
    [stage : {"input"},
     thresholds : [critical : ThresholdValues, high : ThresholdValues,
                   medium : ThresholdValues],
     s1 : AlertScores, s2 : AlertScores]

InitAlert ==
    /\ MempoolInit
    /\ TagInit
    /\ PipeInit
    /\ FlowInit
    /\ SideInit
    /\ sc = [stage |-> "idle"]
    /\ al \in AlertCalls
    /\ cj = [stage |-> "idle"]

NextAlert == Classify

SpecAlert == InitAlert /\ [][NextAlert]_vars

(***************************************************************************)
(* The CoinJoin detector as a function of the shape of the transaction.    *)
(***************************************************************************)
MaxInputCount == 5

MaxEqualOutputs == 10

\* output values: zero, a value that is not round, a Whirlpool pool size, a
\* round value that is no pool size
CjOutputValues == {0, 50000, 100000, 200000}

\* the shapes: the number of inputs and the number of outputs of each value
CjTxs ==
    [stage : {"input"}, input_count : 0..MaxInputCount,
     outputs : [CjOutputValues -> 0..MaxEqualOutputs]]

InitCoinJoin ==
    /\ MempoolInit
    /\ TagInit
    /\ PipeInit
    /\ FlowInit
    /\ SideInit
    /\ sc = [stage |-> "idle"]
    /\ al = [stage |-> "idle"]
    /\ cj \in CjTxs

NextCoinJoin == Detect

SpecCoinJoin == InitCoinJoin /\ [][NextCoinJoin]_vars

(***************************************************************************)
(* Claims about the mempool state tracker.                                 *)
(***************************************************************************)
HistLabels == <<"1-5", "5-10", "10-20", "20-50", "50-100", "100+">>

HistLower == <<0, 5, 10, 20, 50, 100>>

\* the rate lies in the i-th half-open range [lower_i, lower_(i+1)), the last
\* range having no upper end
InRange(rate, i) ==
    /\ rate.n >= HistLower[i] * rate.d
    /\ i < Len(HistLower) => rate.n < HistLower[i + 1] * rate.d

PendingIn(es, i) ==
    {x \in DOMAIN es : es[x].state = "Pending" /\ InRange(es[x].fee_rate, i)}

\* C6: in every reachable state of the tracker the fee histogram lists the
\* six buckets in bucket order, the count of bucket i is the number of
\* Pending entries whose fee_rate lies in the i-th half-open range (so rate 0
\* is in the first), every Pending entry lies in exactly one range,
\* non-Pending entries are counted nowhere, and the counts sum to
\* pending_count.
C6_HistogramCountsPending ==
    LET h == FeeHistogram(entries) IN
    /\ Len(h) = Len(HistLabels)
    /\ \A i \in 1..Len(h) :
          /\ h[i].label = HistLabels[i]
          /\ h[i].count = Cardinality(PendingIn(entries, i))
    /\ \A x \in DOMAIN entries :
          Cardinality({i \in 1..Len(h) : x \in PendingIn(entries, i)}) =
              IF entries[x].state = "Pending" THEN 1 ELSE 0
    /\ h[1].count + h[2].count + h[3].count + h[4].count + h[5].count
          + h[6].count = PendingCount(entries)

\* a Pending entry of rate 0 counted in the first bucket next to a non-Pending
\* entry that is counted nowhere, after a prune
C6_Witness ==
    /\ last.op = "prune_old"
    /\ \E x \in DOMAIN entries, y \in DOMAIN entries :
          /\ entries[x].state = "Pending" /\ entries[x].fee_rate = Rat(0, 1)
          /\ entries[y].state = "Replaced" /\ entries[y].fee_rate = Rat(12, 1)
    /\ FeeHistogram(entries)[1].count = 1
    /\ PendingCount(entries) = 1

\* C7: a step remove_tx(txid, Replaced) leaves a tracked txid in state
\* Replaced, and pending_count drops by exactly 1 when the entry was Pending
\* and is unchanged otherwise (also for an untracked txid).
C7_RemoveReplaced ==
    [][\A t \in Txids :
        (last'.op = "remove_tx" /\ last'.txid = t /\ last'.reason = "Replaced")
        => /\ t \in DOMAIN entries =>
                t \in DOMAIN entries' /\ entries'[t].state = "Replaced"
           /\ PendingCount(entries') =
                PendingCount(entries)
                  - (IF t \in DOMAIN entries /\ entries[t].state = "Pending"
                     THEN 1 ELSE 0)]_vars

\* remove_tx(txid, Replaced) has acted on a tracked entry, next to a Pending one
C7_Witness ==
    /\ last.op = "remove_tx" /\ last.reason = "Replaced"
    /\ last.txid \in DOMAIN entries
    /\ entries[last.txid].state = "Replaced"
    /\ entries[last.txid].replaced_by = None
    /\ PendingCount(entries) = 1

\* C8 as claimed: after prune_old(0) only Pending entries are left, whatever
\* the time of an entry's last state change; prune_old with a max_age beyond
\* every age removes nothing.
C8_PruneZeroRemovesAll ==
    [][/\ (last'.op = "prune_old" /\ last'.max_age = 0)
            => \A x \in DOMAIN entries' : entries'[x].state = "Pending"
       /\ (last'.op = "prune_old" /\ last'.max_age > now)
            => entries' = entries]_vars

\* C8 as amended: prune_old(0) removes exactly the non-Pending entries whose
\* last state change is strictly earlier than the call, keeping one stamped at
\* the instant of the call; prune_old with a max_age beyond every age removes
\* nothing.
C8_PruneZeroRemovesEarlier ==
    [][/\ (last'.op = "prune_old" /\ last'.max_age = 0)
            => /\ DOMAIN entries' =
                    {x \in DOMAIN entries :
                        \/ entries[x].state = "Pending"
                        \/ entries[x].state_changed_at = now}
               /\ \A x \in DOMAIN entries' : entries'[x] = entries[x]
       /\ (last'.op = "prune_old" /\ last'.max_age > now)
            => entries' = entries]_vars

\* prune_old(0) has run and has kept a non-Pending entry stamped at that instant
C8_Witness ==
    /\ last.op = "prune_old" /\ last.max_age = 0
    /\ \E x \in DOMAIN entries :
          entries[x].state # "Pending" /\ entries[x].state_changed_at = now

\* C9: prune_old(max_age) removes exactly the entries that are non-Pending
\* and whose state_changed_at is earlier than now - max_age, and changes no
\* entry it keeps.
C9_PruneExact ==
    [][last'.op = "prune_old"
        => /\ DOMAIN entries' =
                {x \in DOMAIN entries :
                    ~(/\ entries[x].state # "Pending"
                      /\ entries[x].state_changed_at + last'.max_age < now)}
           /\ \A x \in DOMAIN entries' : entries'[x] = entries[x]]_vars

\* prune_old(1) has run at time 2 and has kept a Pending entry stamped at 0
\* and a non-Pending entry stamped at 1
C9_Witness ==
    /\ last.op = "prune_old" /\ last.max_age = 1 /\ now = 2
    /\ \E x \in DOMAIN entries, y \in DOMAIN entries :
          /\ entries[x].state = "Pending" /\ entries[x].state_changed_at = 0
          /\ entries[y].state # "Pending" /\ entries[y].state_changed_at = 1

(***************************************************************************)
(* Claims about the tag index and the tag store.                           *)
(***************************************************************************)
InputSet == {txInputs.inputs[i] : i \in 1..Len(txInputs.inputs)}

\* C2: a call of expand_from_tx with is_coinjoin = true returns 0 and leaves
\* the in-memory map and the persistent store exactly as they were, for any
\* input list and any tags.
C2_CoinJoinNoWrites ==
    [][(tagLast'.op = "expand_from_tx" /\ txInputs.is_coinjoin)
        => /\ tagLast'.ret = 0
           /\ map' = map
           /\ dbTags' = dbTags]_vars

\* expand_from_tx has returned 0 for a CoinJoin with a tagged and an untagged
\* input, and the untagged input is still untagged
C2_Witness ==
    /\ tagLast.op = "expand_from_tx" /\ tagLast.ret = 0
    /\ txInputs.is_coinjoin
    /\ Len(txInputs.inputs) >= 2
    /\ \E a \in InputSet, b \in InputSet :
          /\ a \in DOMAIN map /\ map[a].confidence = Rat(9, 10)
          /\ b \notin DOMAIN map /\ b \notin DOMAIN dbTags

\* C3 as claimed: no step lowers the confidence the store holds for an
\* address, nor drops its tag.
C3_ConfidenceNeverDecreases ==
    [][\A a \in DOMAIN dbTags :
          /\ a \in DOMAIN dbTags'
          /\ RatGe(dbTags'[a].confidence, dbTags[a].confidence)]_vars

\* the tagged inputs of highest confidence in the index m
BestInputs(m) ==
    {b \in InputSet \cap DOMAIN m :
        \A x \in InputSet \cap DOMAIN m :
            m[b].confidence.n * m[x].confidence.d
                >= m[x].confidence.n * m[b].confidence.d}

\* the address is untagged in m or tagged below 7/10 of the confidence c
BelowDerived(m, a, c) ==
    a \notin DOMAIN m
    \/ 10 * c.d * m[a].confidence.n < 7 * c.n * m[a].confidence.d

\* the tag is the cluster tag derived from best for the address
IsDerivedTag(tag, a, best) ==
    /\ tag.address = a
    /\ tag.entity = best.entity
    /\ tag.entity_type = best.entity_type
    /\ tag.source = "cluster_heuristic"
    /\ 10 * best.confidence.d * tag.confidence.n
          = 7 * best.confidence.n * tag.confidence.d

\* the store holds for the address what it held
SameStored(a) ==
    IF a \in DOMAIN dbTags
    THEN a \in DOMAIN dbTags' /\ dbTags'[a] = dbTags[a]
    ELSE a \notin DOMAIN dbTags'

\* what a call of expand_from_tx without the CoinJoin flag does; unstored is
\* the set of written addresses whose tag does not reach the store
ExpansionPost(unstored) ==
    IF Len(txInputs.inputs) < 2 \/ InputSet \cap DOMAIN map = {}
    THEN tagLast'.ret = 0 /\ map' = map /\ dbTags' = dbTags
    ELSE \E b \in BestInputs(map) :
            LET W == {a \in InputSet :
                         BelowDerived(map, a, map[b].confidence)}
            IN /\ DOMAIN map' = DOMAIN map \cup W
               /\ \A a \in W : IsDerivedTag(map'[a], a, map[b])
               /\ \A a \in DOMAIN map \ W : map'[a] = map[a]
               /\ \A a \in W \ unstored :
                     a \in DOMAIN dbTags' /\ dbTags'[a] = map'[a]
               /\ \A a \in Addresses \ (W \ unstored) : SameStored(a)
               /\ tagLast'.ret = Cardinality(W)

C1_FeeFollowsResolution ==
    analyzed # << >> =>
        IF analyzed[1].prevouts_resolved
        THEN /\ analyzed[1].fee =
                    analyzed[1].total_input_value
                        - analyzed[1].total_output_value
             /\ analyzed[1].fee_rate.n * analyzed[1].vsize =
                    analyzed[1].fee * analyzed[1].fee_rate.d
        ELSE /\ analyzed[1].fee = 0
             /\ analyzed[1].fee_rate.n = 0

\* C10 as claimed: at most one getrawtransaction call is ever issued for a
\* key.
C10_OneRpcPerKey ==
    \A k \in PrevKeys : rpcCalls[k] <= 1

\* C10 as amended: a step issues at most one call for a key, none while a
\* call is in flight, and none for a key the cache holds unless the cache
\* lookup itself failed; what the cache holds it keeps.
C10_NoRpcInFlightOrCached ==
    [][/\ \A k \in PrevKeys :
            rpcCalls'[k] # rpcCalls[k]
            => /\ rpcCalls'[k] = rpcCalls[k] + 1
               /\ InFlight = {}
               /\ InFlight' = {k}
               /\ (k \notin DOMAIN utxo_cache \/ pipe'.found = "Err")
       /\ \A k \in DOMAIN utxo_cache :
            k \in DOMAIN utxo_cache' /\ utxo_cache'[k] = utxo_cache[k]]_vars

\* two transactions that each spend p1:0 and nothing else are assembled, the
\* second fully resolved, after a single call for p1:0, whose result is cached
C10_Witness ==
    /\ tx_count = 2
    /\ pipe.stage = "idle"
    /\ rpcCalls["p1:0"] = 1 /\ rpcCalls["p2:1"] = 0
    /\ "p1:0" \in DOMAIN utxo_cache
    /\ analyzed # << >>
    /\ analyzed[1].prevouts_resolved
    /\ analyzed[1].total_input_value = PrevValue("p1:0")

(***************************************************************************)
(* Claims about the write-through of the prevout cache.                    *)
(***************************************************************************)
\* the step is the return of resolve_prevout after a successful RPC
RpcResolvedStep ==
    /\ pipe.stage = "rpc"
    /\ pipe'.stage = "resolving"
    /\ pipe'.resolved_count = pipe.resolved_count + 1

\* the step is the return of resolve_prevout from the cache, with no RPC
CacheResolvedStep ==
    /\ pipe.stage = "resolving"
    /\ pipe'.stage = "resolving"
    /\ pipe'.i = pipe.i + 1

\* C11 as claimed: when the RPC of a lookup succeeds, the key is in the cache
\* when the resolver returns.
C11_WrittenBeforeReturn ==
    [][RpcResolvedStep => pipe.key \in DOMAIN utxo_cache']_vars

\* C11 as amended: when the RPC of a lookup succeeds, the resolver returns
\* the value of the node and either has written exactly that value under the
\* key or, the write having failed, has left the cache as it was; an input
\* resolved without an RPC is resolved with the value the cache holds for its
\* key, and issues no call; the cache only ever holds values of the node.
C11_WriteThroughUnlessWriteFails ==
    [][/\ RpcResolvedStep =>
            /\ pipe'.total_input_value =
                   pipe.total_input_value + PrevValue(pipe.key)
            /\ \/ utxo_cache' = Put(utxo_cache, pipe.key, PrevValue(pipe.key))
               \/ utxo_cache' = utxo_cache
       /\ CacheResolvedStep =>
            /\ pipe.tx.inputs[pipe.i] \in DOMAIN utxo_cache
            /\ pipe'.total_input_value =
                   pipe.total_input_value + utxo_cache[pipe.tx.inputs[pipe.i]]
            /\ pipe'.resolved_count = pipe.resolved_count + 1
            /\ rpcCalls' = rpcCalls
            /\ utxo_cache' = utxo_cache
       /\ \A k \in DOMAIN utxo_cache' : utxo_cache'[k] = PrevValue(k)]_vars

\* a first transaction spent p1:0 alone and resolved it with the one call
\* ever issued for p1:0; the second has its first input, again p1:0, resolved
\* from the cache
C11_Witness ==
    /\ tx_count = 1
    /\ analyzed # << >>
    /\ analyzed[1].input_count = 1
    /\ analyzed[1].total_input_value = PrevValue("p1:0")
    /\ rpcCalls["p1:0"] = 1
    /\ pipe.stage = "resolving"
    /\ pipe.i = 2
    /\ pipe.tx.inputs[1] = "p1:0"
    /\ pipe.resolved_count = 1
    /\ "p1:0" \in DOMAIN utxo_cache
    /\ pipe.total_input_value = utxo_cache["p1:0"]

(***************************************************************************)
(* Claims about the composite score and the alert level.                   *)
(***************************************************************************)
\* C16 as claimed: the composite score of every scored transaction, under
\* every weight configuration, is a finite number in [0, 100].
C16_CompositeFiniteInRange ==
    sc.stage = "scored" =>
        /\ IsFinite(sc.composite_score)
        /\ FGe(sc.composite_score, Rat(0, 1))
        /\ FGe(Rat(100, 1), sc.composite_score)

\* every weight and raw value of the rule scores is finite
FiniteScores(scores) ==
    \A i \in 1..Len(scores) :
        IsFinite(scores[i].weight) /\ IsFinite(scores[i].raw_value)

\* sum over i..Len of raw x weight, and of |weight|, from the last rule back
RECURSIVE Numerator(_, _)
Numerator(scores, i) ==
    IF i > Len(scores) THEN Rat(0, 1)
    ELSE LET rest == Numerator(scores, i + 1)
             n == scores[i].raw_value.n * scores[i].weight.n
             d == scores[i].raw_value.d * scores[i].weight.d
         IN  Reduced(n * rest.d + rest.n * d, d * rest.d)

RECURSIVE Denominator(_, _)
Denominator(scores, i) ==
    IF i > Len(scores) THEN Rat(0, 1)
    ELSE LET rest == Denominator(scores, i + 1)
             n == Abs(scores[i].weight.n)
             d == scores[i].weight.d
         IN  Reduced(n * rest.d + rest.n * d, d * rest.d)

\* clamp(num / den x 100, 0, 100), and 0 when den = 0
Clamped100(num, den) ==
    IF den.n = 0 THEN Rat(0, 1)
    ELSE IF num.n < 0 THEN Rat(0, 1)
    ELSE IF num.n * den.d > den.n * num.d THEN Rat(100, 1)
    ELSE Reduced(100 * num.n * den.d, num.d * den.n)

\* the rule scores carry the default weights, exchange_flow has raw value 0.9
\* and every other rule has raw value 0
DefaultsWithExchangeOnly(scores) ==
    /\ Len(scores) = Len(DefaultRules)
    /\ \A i \in 1..Len(scores) :
          /\ scores[i].rule_name = DefaultRules[i]
          /\ scores[i].weight = DefaultWeight(DefaultRules[i])
          /\ scores[i].raw_value =
                IF DefaultRules[i] = "exchange_flow" THEN Rat(9, 10)
                ELSE Rat(0, 1)

\* C17: for finite weights and raw values the composite score of a list of
\* rule scores is clamp(sum(raw x weight) / sum(|weight|) x 100, 0, 100), and
\* 0 when the sum of |weight| is 0, as for an empty list or all weights zero;
\* under the default weights, exchange_flow at 0.9 and every other rule at 0
\* give 18.75.
C17_CompositeFormula ==
    (sc.stage \in {"scored", "composite"} /\ FiniteScores(sc.rule_scores)) =>
        /\ sc.composite_score =
               Clamped100(Numerator(sc.rule_scores, 1),
                          Denominator(sc.rule_scores, 1))
        /\ Denominator(sc.rule_scores, 1).n = 0 =>
               sc.composite_score = Rat(0, 1)
        /\ DefaultsWithExchangeOnly(sc.rule_scores) =>
               sc.composite_score = Rat(75, 4)

\* the engine has scored, under the default weights, a transaction that only
\* the exchange rule rates, at 0.9: the composite is 18.75
C17_Witness ==
    /\ sc.stage = "scored"
    /\ DefaultsWithExchangeOnly(sc.rule_scores)
    /\ sc.composite_score = Rat(75, 4)

Rank(level) ==
    CASE level = "Low" -> 0
      [] level = "Medium" -> 1
      [] level = "High" -> 2
      [] level = "Critical" -> 3

\* C18: under any fixed thresholds the level of the lower of two scores is
\* not above the level of the higher; the built-in classification is Critical
\* iff score >= 80, High iff in [60, 80), Medium iff in [40, 60), Low iff
\* below 40, and the configurable one agrees with it under the defaults
\* 80/60/40.
C18_AlertLevelMonotone ==
    al.stage = "classified" =>
        /\ FGe(al.s2, al.s1) => Rank(al.level1) <= Rank(al.level2)
        /\ al.from_score1 = "Critical" <=> FGe(al.s1, Rat(80, 1))
        /\ al.from_score1 = "High" <=>
               FGe(al.s1, Rat(60, 1)) /\ FLt(al.s1, Rat(80, 1))
        /\ al.from_score1 = "Medium" <=>
               FGe(al.s1, Rat(40, 1)) /\ FLt(al.s1, Rat(60, 1))
        /\ (~IsNaN(al.s1) /\ al.from_score1 = "Low") <=>
               FLt(al.s1, Rat(40, 1))
        /\ al.thresholds = DefaultThresholds => al.level1 = al.from_score1

\* thresholds out of order (high below medium), a score of 39.5 classified
\* High and a score of 80 classified Critical, which the built-in thresholds
\* would classify Low and Critical
C18_Witness ==
    /\ al.stage = "classified"
    /\ al.thresholds = [critical |-> Rat(80, 1), high |-> Rat(20, 1),
                        medium |-> Rat(40, 1)]
    /\ al.s1 = Rat(79, 2) /\ al.level1 = "High" /\ al.from_score1 = "Low"
    /\ al.s2 = Rat(80, 1) /\ al.level2 = "Critical"

(***************************************************************************)
(* Claims about the CoinJoin detector.                                     *)
(***************************************************************************)
CjOutputCount == OutputCount(cj.outputs, DOMAIN cj.outputs)

\* C19: for every transaction with fewer than 3 inputs or fewer than 3
\* outputs, whatever the output values, the detector returns is_coinjoin =
\* false, confidence 0 and pattern Unknown.
C19_FewInputsOrOutputsNotCoinJoin ==
    (cj.stage = "detected" /\ (cj.input_count < 3 \/ CjOutputCount < 3)) =>
        /\ ~cj.result.is_coinjoin
        /\ cj.result.confidence = Rat(0, 1)
        /\ cj.result.pattern = "Unknown"

\* two inputs and four equal outputs, which three inputs would make a
\* CoinJoin: the result is the default one
C19_Witness ==
    /\ cj.stage = "detected"
    /\ cj.input_count = 2
    /\ cj.outputs[100000] = 4
    /\ CjOutputCount = 4
    /\ cj.result = DefaultResult

\* the values that occur at least 3 times and in more than half of the
\* outputs: none or one
Dominant ==
    {v \in DOMAIN cj.outputs :
        cj.outputs[v] >= 3 /\ 2 * cj.outputs[v] > CjOutputCount}

\* the decision procedure for the dominant value v
Decision(v, count, inputs, outputs) ==
    IF count = 5 /\ v \in {100000, 1000000, 5000000, 50000000}
       /\ inputs >= 5 /\ outputs >= 5
    THEN [is_coinjoin |-> TRUE, confidence |-> Rat(19, 20),
          pattern |-> "WhirlpoolPool"]
    ELSE IF count >= 5 /\ inputs >= 5 /\ outputs >= 5
    THEN [is_coinjoin |-> TRUE,
          confidence |-> IF v > 0 /\ v % 100000 = 0 THEN Rat(17, 20)
                         ELSE Rat(3, 4),
          pattern |-> IF v > 0 /\ v % 100000 = 0 /\ count >= 10
                      THEN "WasabiLike" ELSE "EqualOutput"]
    ELSE IF 10 * count > 7 * outputs
    THEN [is_coinjoin |-> TRUE, confidence |-> Rat(1, 2),
          pattern |-> "EqualOutput"]
    ELSE [is_coinjoin |-> FALSE, confidence |-> Rat(0, 1),
          pattern |-> "Unknown"]

\* the same flag and pattern, and confidences of the same value
SameResult(r, s) ==
    /\ r.is_coinjoin = s.is_coinjoin
    /\ r.pattern = s.pattern
    /\ r.confidence.n * s.confidence.d = s.confidence.n * r.confidence.d

\* C20: for every shape (input count, multiset of output values) the result
\* of the detector is that of the specified decision procedure: not CoinJoin
\* with fewer than 3 inputs or outputs, or unless some value occurs at least
\* 3 times and in more than half of the outputs; then WhirlpoolPool/0.95 for
\* exactly 5 occurrences of a pool size with inputs >= 5 and outputs >= 5;
\* else, for >= 5 occurrences with inputs >= 5 and outputs >= 5, confidence
\* 0.85 if the value is a positive multiple of 100000 else 0.75, WasabiLike
\* iff round and count >= 10 else EqualOutput; else EqualOutput/0.5 when the
\* ratio exceeds 0.7; otherwise not CoinJoin.
C20_DetectorEqualsProcedure ==
    cj.stage = "detected" =>
        IF cj.input_count < 3 \/ CjOutputCount < 3 \/ Dominant = {}
        THEN SameResult(cj.result, DefaultResult)
        ELSE \A v \in Dominant :
                SameResult(cj.result,
                           Decision(v, cj.outputs[v], cj.input_count,
                                    CjOutputCount))

\* five inputs, ten outputs of a round value that is no pool size and two
\* others: WasabiLike with confidence 0.85
C20_Witness ==
    /\ cj.stage = "detected"
    /\ cj.input_count = 5
    /\ cj.outputs[200000] = 10
    /\ CjOutputCount = 12
    /\ cj.result.is_coinjoin
    /\ cj.result.pattern = "WasabiLike"
    /\ cj.result.confidence = Rat(85, 100)

\* the NewTx messages the sink holds for the event seq
NewTxsOf(seq) ==
    {i \in DOMAIN sink : sink[i].kind = "NewTx" /\ sink[i].seq = seq}

\* the events the loop has taken from the channel and is done with
Handled ==
    {seq \in 1..(nextSeq - 1) :
        /\ \A i \in DOMAIN events : events[i].seq # seq
        /\ ~(pipe.stage \in {"resolving", "rpc"} /\ pipe.tx.seq = seq)}

\* a step of the resolution of the transaction at hand: the next input, or
\* the call for this one, with the same transaction and nothing lost of
\* what earlier inputs resolved to; an input the call did not resolve is
\* skipped
C12_ResolutionStep ==
    /\ pipe'.stage \in {"resolving", "rpc"}
    /\ pipe'.tx = pipe.tx
    /\ pipe'.i \in {pipe.i, pipe.i + 1}
    /\ pipe'.i <= Len(pipe.tx.inputs) + 1
    /\ pipe'.resolved_count \in {pipe.resolved_count, pipe.resolved_count + 1}
    /\ pipe'.total_input_value >= pipe.total_input_value
    /\ (pipe'.stage = "rpc") = (pipe.stage = "resolving" /\ pipe'.i = pipe.i)
    /\ pipe'.resolved_count = pipe.resolved_count /\ pipe'.stage = "resolving"
       => pipe.stage = "rpc" /\ pipe'.i = pipe.i + 1

\* the end of the resolution: every input was looked at, the AnalyzedTx is
\* the one of the transaction at hand, it is marked as resolved exactly when
\* no input was skipped, and one NewTx of it is sent
C12_AssembleStep ==
    /\ pipe.stage = "resolving"
    /\ pipe.i = Len(pipe.tx.inputs) + 1
    /\ pipe'.stage = "idle"
    /\ analyzed'[1].txid = pipe.tx.txid
    /\ analyzed'[1].prevouts_resolved
         = (pipe.resolved_count = Len(pipe.tx.inputs))
    /\ Len(sink') > Len(sink)
    /\ SubSeq(sink', 1, Len(sink)) = sink
    /\ sink'[Len(sink) + 1].kind = "NewTx"
    /\ sink'[Len(sink) + 1].seq = pipe.tx.seq
    /\ sink'[Len(sink) + 1].txid = pipe.tx.txid
    /\ sink'[Len(sink) + 1].prevouts_resolved
         = analyzed'[1].prevouts_resolved
    /\ \A i \in (Len(sink) + 2)..Len(sink') : sink'[i].kind # "NewTx"

\* C12: a failed resolution of an input never aborts the transaction: while
\* the sink is open, every step on a transaction in resolution either goes on
\* with the same transaction (a failed input is skipped) or assembles it,
\* marks it prevouts_resolved = false exactly when an input stayed unresolved
\* and sends one NewTx; every TxAdded event the loop is done with has exactly
\* one NewTx in the sink.
C12_FailedInputNeverAborts ==
    /\ [](sinkOpen => \A seq \in Handled : Cardinality(NewTxsOf(seq)) = 1)
    /\ [][sinkOpen /\ pipe.stage \in {"resolving", "rpc"} /\ pipe' # pipe
            => C12_ResolutionStep \/ C12_AssembleStep]_vars

\* a transaction of two inputs, the first resolved and the second not, was
\* sent as NewTx with prevouts_resolved = false
C12_Witness ==
    /\ pipe.stage = "idle"
    /\ tx_count = 1
    /\ analyzed # << >>
    /\ analyzed[1].input_count = 2
    /\ analyzed[1].total_input_value = PrevValue("p1:0")
    /\ rpcCalls["p1:0"] = 1
    /\ rpcCalls["p2:1"] = 1
    /\ ~analyzed[1].prevouts_resolved
    /\ Len(sink) = 1
    /\ sink[1].kind = "NewTx"
    /\ sink[1].txid = analyzed[1].txid
    /\ ~sink[1].prevouts_resolved

\* C13 as claimed: every transaction scored at or above the persist
\* threshold is enqueued as a SignalBatchEntry or written to the signal
\* store; stated for the transactions whose NewTx the sink holds.
C13_ScoredAboveThresholdIsKept ==
    \A i \in DOMAIN sink :
        sink[i].kind = "NewTx" /\ FGe(sink[i].composite_score, MIN_SCORE_PERSIST)
        => sink[i].txid \in {signals[j].txid : j \in DOMAIN signals}
                             \cup PendingSignals

\* a step of the loop that attempts a send to the sink: the NewTx of the
\* assembled transaction, or the BlockConnected message and the stats
AttemptsSend ==
    \/ pipe.stage = "resolving" /\ pipe.i > Len(pipe.tx.inputs) /\ pipe' # pipe
    \/ /\ pipe.stage = "idle"
       /\ events # << >>
       /\ Head(events).kind = "BlockConnected"
       /\ events' = Tail(events)

\* C14 as claimed: once the receive end of the sink is dropped, the step
\* that next attempts a send ends the loop, and a loop that has ended
\* handles no further event.
C14_LoopExitsAtFailedSend ==
    [][/\ ~sinkOpen /\ AttemptsSend => pipe'.stage = "stopped"
       /\ pipe.stage = "stopped"
          => UNCHANGED <<pipeVars, mempoolVars, sink, block_count>>]_vars

\* the NewTx and BlockConnected messages of the sink, in its order
IsOrdered(m) == m.kind \in {"NewTx", "BlockConnected"}

OrderedMessages == SelectSeq(sink, IsOrdered)

\* the messages a step appends to the sink
Appended == SubSeq(sink', Len(sink) + 1, Len(sink'))

\* C15: message order is preserved end to end: seq being the position of an
\* event in the order the subscriber sent it, the channel holds the events in
\* that order, the loop takes them from its head, each NewTx or
\* BlockConnected message is the one of the event at hand, and the sink holds
\* these messages in strictly increasing seq (none twice, none reordered),
\* all of them before the events still to be handled.
C15_MessageOrderPreserved ==
    /\ [](/\ \A i \in DOMAIN events, j \in DOMAIN events :
                i < j => events[i].seq < events[j].seq
          /\ \A i \in DOMAIN OrderedMessages, j \in DOMAIN OrderedMessages :
                i < j => OrderedMessages[i].seq < OrderedMessages[j].seq
          /\ \A i \in DOMAIN OrderedMessages, j \in DOMAIN events :
                OrderedMessages[i].seq < events[j].seq
          /\ pipe.stage \in {"resolving", "rpc"}
             => /\ \A i \in DOMAIN OrderedMessages :
                      OrderedMessages[i].seq < pipe.tx.seq
                /\ \A j \in DOMAIN events : pipe.tx.seq < events[j].seq)
    /\ [][/\ pipe.stage = "idle" /\ pipe'.stage = "resolving"
              => /\ Head(events).kind = "TxAdded"
                 /\ events' = Tail(events)
                 /\ pipe'.tx.seq = Head(events).seq
                 /\ pipe'.tx.txid = Head(events).parsed[1].txid
           /\ \A i \in DOMAIN Appended :
                 /\ Appended[i].kind = "NewTx"
                    => /\ i = 1
                       /\ pipe.stage = "resolving"
                       /\ Appended[i].seq = pipe.tx.seq
                       /\ Appended[i].txid = pipe.tx.txid
                 /\ Appended[i].kind = "BlockConnected"
                    => /\ i = 1
                       /\ pipe.stage = "idle"
                       /\ Head(events).kind = "BlockConnected"
                       /\ events' = Tail(events)
                       /\ Appended[i].seq = Head(events).seq
                       /\ Appended[i].height = Head(events).height]_vars

\* the subscriber sent TxAdded, BlockConnected, TxAdded, and the sink holds
\* NewTx, BlockConnected, NewTx in that order
C15_Witness ==
    /\ Len(OrderedMessages) = 3
    /\ OrderedMessages[1].kind = "NewTx"
    /\ OrderedMessages[1].seq = 1
    /\ OrderedMessages[2].kind = "BlockConnected"
    /\ OrderedMessages[2].seq = 2
    /\ OrderedMessages[3].kind = "NewTx"
    /\ OrderedMessages[3].seq = 3
    /\ events = << >>

\* C21: prevout cache round trip: a cache_utxo that succeeds makes the row
\* of its key hold the value, whatever the row held before (overwrite), and
\* changes the row of no other key; one that fails changes nothing; a
\* get_utxo that succeeds returns the value of the row of its key, none for a
\* key without a row, and changes no row.
C21_CacheRoundTrip ==
    [][/\ dbLast'.op = "cache_utxo" /\ dbLast'.ok
          => /\ DOMAIN utxo_cache' = DOMAIN utxo_cache \cup {dbLast'.key}
             /\ utxo_cache'[dbLast'.key] = dbLast'.value
             /\ \A k \in DOMAIN utxo_cache \ {dbLast'.key} :
                   utxo_cache'[k] = utxo_cache[k]
             /\ GetUtxo(utxo_cache', dbLast'.key, TRUE)
                  = [kind |-> "Some", value |-> dbLast'.value]
             /\ \A k \in CacheKeys \ {dbLast'.key} :
                   GetUtxo(utxo_cache', k, TRUE) = GetUtxo(utxo_cache, k, TRUE)
       /\ dbLast'.op = "cache_utxo" /\ ~dbLast'.ok
          => utxo_cache' = utxo_cache
       /\ dbLast'.op = "get_utxo"
          => /\ utxo_cache' = utxo_cache
             /\ dbLast'.result.kind = "Some"
                => /\ dbLast'.key \in DOMAIN utxo_cache
                   /\ dbLast'.result.value = utxo_cache[dbLast'.key]
             /\ dbLast'.result.kind = "None"
                => dbLast'.key \notin DOMAIN utxo_cache
             /\ dbLast'.result.kind = "Err"
                \/ (dbLast'.result.kind = "Some")
                    = (dbLast'.key \in DOMAIN utxo_cache)]_vars

\* a key cached with 1 was cached again with 2 while the keys that share
\* its txid or its vout hold 1, and the three rows are as cached
C21_Witness ==
    /\ dbLast.op = "cache_utxo"
    /\ dbLast.ok
    /\ dbLast.key = "p1:1"
    /\ dbLast.before = <<1>>
    /\ dbLast.value = 2
    /\ DOMAIN utxo_cache = CacheKeys
    /\ utxo_cache["p1:1"] = 2
    /\ utxo_cache["p1:0"] = 1
    /\ utxo_cache["p2:1"] = 1

\* C30: a batched insert of N signal rows is atomic: a store_signals_batch
\* that returns Ok has appended its N rows, in order, and the count has
\* grown by N; one that returns Err (a row the table refuses, an error at a
\* statement or at the commit) has left the table and the count as they
\* were; a batch with a row the table refuses never returns Ok.
C30_BatchInsertAtomic ==
    [][dbLast'.op = "store_signals_batch"
       => /\ dbLast'.count_before = GetSignalCount(signals)
          /\ dbLast'.ok
             => /\ signals' = signals \o dbLast'.batch
                /\ GetSignalCount(signals')
                     = GetSignalCount(signals) + Len(dbLast'.batch)
                /\ \A i \in DOMAIN dbLast'.batch :
                      ~InsertFails(dbLast'.batch[i])
          /\ ~dbLast'.ok
             => /\ signals' = signals
                /\ GetSignalCount(signals') = GetSignalCount(signals)]_vars

\* a batch of two rows whose second row the table refuses, after the insert
\* of its first row ran, returned Err and the table holds the one row it
\* held before
C30_Witness ==
    /\ dbLast.op = "store_signals_batch"
    /\ ~dbLast.ok
    /\ Len(dbLast.batch) = 2
    /\ ~InsertFails(dbLast.batch[1])
    /\ InsertFails(dbLast.batch[2])
    /\ dbLast.count_before = 1
    /\ GetSignalCount(signals) = 1
    /\ signals[1].txid # dbLast.batch[1].txid

\* the step in which the loop takes a BlockConnected event from the channel
HandlesBlockConnected ==
    /\ pipe.stage = "idle"
    /\ events # << >>
    /\ Head(events).kind = "BlockConnected"
    /\ events' = Tail(events)

\* C29: on each BlockConnected event the pipeline increments block_count by
\* exactly one, sends one BlockConnected message with the height of the
\* event and, directly after it, one MempoolStats snapshot (both reach the
\* sink while its receive end is not dropped), and changes no mempool entry;
\* no other step changes block_count.
C29_BlockConnectedHandled ==
    [][/\ HandlesBlockConnected
          => /\ block_count' = block_count + 1
             /\ entries' = entries
             /\ replacement_chain' = replacement_chain
             /\ sinkOpen
                => /\ Len(sink') = Len(sink) + 2
                   /\ SubSeq(sink', 1, Len(sink)) = sink
                   /\ sink'[Len(sink) + 1].kind = "BlockConnected"
                   /\ sink'[Len(sink) + 1].height = Head(events).height
                   /\ sink'[Len(sink) + 2].kind = "MempoolStats"
                   /\ sink'[Len(sink) + 2].pending_count
                        = Cardinality({x \in DOMAIN entries :
                                          entries[x].state = "Pending"})
             /\ ~sinkOpen => sink' = sink
       /\ block_count' # block_count => HandlesBlockConnected]_vars

\* a block was connected while one transaction was pending: the sink holds
\* its NewTx, then the BlockConnected message, then the stats that count it
C29_Witness ==
    /\ block_count = 1
    /\ tx_count = 1
    /\ Len(sink) = 3
    /\ sink[1].kind = "NewTx"
    /\ sink[2].kind = "BlockConnected"
    /\ sink[3].kind = "MempoolStats"
    /\ sink[3].pending_count = 1
    /\ PendingCount(entries) = 1

\* the MempoolStats snapshots the sink holds
StatsCount == Cardinality({i \in DOMAIN sink : sink[i].kind = "MempoolStats"})

\* C24 as claimed: whenever STATS_TIME_INTERVAL has passed since the last
\* snapshot, a new MempoolStats snapshot is emitted, also while no TxAdded
\* event arrives.
C24_StatsEveryInterval ==
    \A n \in 0..(2 * MaxEvents) :
        (stats_elapsed /\ StatsCount = n) ~> (StatsCount > n)

\* C25 as claimed: every mempool entry that has left the Pending state is
\* eventually removed from the mempool map (or is Pending again, when the
\* transaction is added again), also when no further TxAdded event arrives.
\* Stated of the entries that left Pending by MaxTime, whose grace period
\* ends within the modelled clock.
C25_NonPendingEventuallyPruned ==
    \A txid \in Txids :
        (/\ txid \in DOMAIN entries
         /\ entries[txid].state # "Pending"
         /\ entries[txid].state_changed_at <= MaxTime)
        ~> (txid \notin DOMAIN entries \/ entries[txid].state = "Pending")

\* the messages a step appends to the sink
NewMessages == {sink'[i] : i \in (Len(sink) + 1)..Len(sink')}

\* C27: every MempoolStats snapshot a step sends carries the pending_count,
\* the total_vsize, the total_fees and the fee_histogram of one single
\* mempool state, the state the handler leaves behind: no field is computed
\* from an earlier or a later state than the others.
C27_StatsFromOneState ==
    [][\A m \in NewMessages :
          m.kind = "MempoolStats" =>
              /\ m.pending_count = PendingCount(entries')
              /\ m.total_vsize = TotalVsize(entries')
              /\ m.total_fees = TotalFees(entries')
              /\ m.fee_histogram = FeeHistogram(entries')]_vars

\* the second transaction was followed by a snapshot of a mempool that
\* tracks it as Pending next to an entry that has left Pending
C27_Witness ==
    /\ Len(sink) > 0
    /\ sink[Len(sink)].kind = "MempoolStats"
    /\ sink[Len(sink)].pending_count = 1
    /\ sink[Len(sink)].total_vsize > 0
    /\ tx_count = 2
    /\ \E x \in DOMAIN entries : entries[x].state # "Pending"
    /\ pipe.stage = "idle"
    /\ events = << >>

\* a step in which the subscriber handles the frame of its sequence socket
FrameStep == zmq.socket # << >> /\ zmq'.socket = << >>

\* the frame a FrameStep handles
FrameAtHand == zmq.socket[1]

\* a frame of the sequence topic with a body of 41 bytes
WellFormed(f) ==
    f.parts >= 2 /\ f.topic = "sequence" /\ f.body_len = SEQUENCE_BODY_LEN

\* the events a step puts on the channel
SentEvents == [i \in 1..(Len(events') - Len(events)) |-> events'[Len(events) + i]]

\* C22 as claimed: while the channel is open, a well-formed frame with label
\* R puts exactly one TxRemoved of its hash with reason Unknown on the
\* channel, C exactly one BlockConnected, D exactly one BlockDisconnected,
\* A nothing; a frame with an unknown label, fewer than two parts, another
\* topic or a body that is not 41 bytes long puts nothing on the channel;
\* and the subscriber keeps running in each case.
C22_FrameEmitsByLabel ==
    [][FrameStep /\ ~ChannelClosed =>
          /\ zmq'.status = "running"
          /\ SentEvents =
                 IF WellFormed(FrameAtHand)
                 THEN CASE FrameAtHand.label = "R" ->
                               <<TxRemovedEvent(nextSeq, FrameAtHand.hash,
                                                "Unknown")>>
                        [] FrameAtHand.label = "C" ->
                               <<BlockConnectedEvent(nextSeq, 0)>>
                        [] FrameAtHand.label = "D" ->
                               <<BlockDisconnectedEvent(nextSeq)>>
                        [] OTHER -> << >>
                 ELSE << >>]_vars

\* C23 as claimed: handling a well-formed frame raises the gap warning
\* exactly when a counter is remembered and the frame's counter is not that
\* counter + 1, remembers the frame's counter, and still puts the event of
\* the frame's label on the open channel.
C23_GapWarnedEventKept ==
    [][FrameStep /\ WellFormed(FrameAtHand) =>
          /\ ("gap" \in zmq'.warnings) <=>
                 (/\ zmq.last_seq # << >>
                  /\ FrameAtHand.counter # zmq.last_seq[1] + 1)
          /\ zmq'.last_seq = <<FrameAtHand.counter>>
          /\ ~ChannelClosed /\ FrameAtHand.label \in {"R", "C", "D"}
                 => Len(events') = Len(events) + 1]_vars

\* the distance of two Instants
Apart(a, b) == IF a >= b THEN a - b ELSE b - a

\* C28: nothing is sent by a disabled notifier or for a score below
\* min_score, and such a call returns false at once; a call that qualifies
\* is sent exactly when no notification was sent before or at least
\* cooldown has elapsed since the last one, so any two notifications sent
\* are at least cooldown apart, whichever threads called; with a cooldown
\* of 0 every qualifying call is sent.
C28_CooldownKept ==
    /\ [](\A i \in DOMAIN sent :
             /\ notifier.enabled
             /\ ~FLt(sent[i].composite_score, notifier.min_score)
             /\ \A j \in DOMAIN sent :
                    i # j => Apart(sent[i].at, sent[j].at) >= notifier.cooldown)
    /\ [][\A t \in Threads :
             /\ notifyCalls[t].stage = "idle" /\ notifyCalls'[t].stage # "idle"
                    => IF \/ ~notifier.enabled
                          \/ FLt(notifyCalls'[t].composite_score,
                                 notifier.min_score)
                       THEN /\ notifyCalls'[t].stage = "returned"
                            /\ ~notifyCalls'[t].result
                       ELSE notifyCalls'[t].stage = "check_cooldown"
             /\ (notifyCalls[t].stage = "check_cooldown"
                 /\ notifyCalls'[t].stage # "check_cooldown")
                    => IF \/ notifier.last_sent = << >>
                          \/ instant - notifier.last_sent[1] >= notifier.cooldown
                       THEN /\ notifyCalls'[t].stage = "send_notification"
                            /\ notifier'.last_sent = <<instant>>
                       ELSE /\ notifyCalls'[t].stage = "returned"
                            /\ ~notifyCalls'[t].result
                            /\ notifier' = notifier
             /\ notifyCalls'[t].stage = "returned" /\ notifyCalls[t].stage # "returned"
                    => (notifyCalls'[t].result <=> Len(sent') = Len(sent) + 1)]_vars

\* with a cooldown that is not zero, two threads have each sent a
\* notification and a third qualifying call was turned down in between
C28_Witness ==
    /\ notifier.cooldown > 0
    /\ Len(sent) = 2
    /\ sent[1].thread # sent[2].thread
    /\ \E t \in Threads :
          /\ notifyCalls[t].stage = "returned"
          /\ ~notifyCalls[t].result
          /\ ~FLt(notifyCalls[t].composite_score, notifier.min_score)

\* the pipeline is inside a method of SharedDatabase
ResolverInStore == resolver.stage \in {"in_get_utxo", "in_cache_utxo"}

\* the poller is inside a method of SharedDatabase
PollerInStore ==
    poller.stage \in {"in_get_signals_above_score", "in_get_signal_count"}

\* C26: the mutex is held exactly while a method of the store runs, by the
\* caller of that method, so no two store operations overlap; the pipeline
\* holds no guard while it awaits the reply of the RPC or stands between
\* two calls, so a poller that waits for the mutex during an RPC finds it
\* free; and every step that ends a store operation frees the mutex.
C26_NoLockAcrossAwait ==
    /\ [](/\ (dbLock = "pipeline") <=> ResolverInStore
          /\ (dbLock = "poller") <=> PollerInStore
          /\ ~(ResolverInStore /\ PollerInStore)
          /\ resolver.stage = "rpc_await" => dbLock # "pipeline"
          /\ (/\ resolver.stage = "rpc_await"
              /\ poller.stage \in {"get_signals_above_score",
                                    "get_signal_count"})
                 => dbLock = "free")
    /\ [][(dbLock # "free" /\ dbLock' # dbLock) => dbLock' = "free"]_vars

\* the poller is inside get_signals_above_score while the pipeline awaits
\* the reply of the node
C26_Witness ==
    /\ resolver.stage = "rpc_await"
    /\ poller.stage = "in_get_signals_above_score"
    /\ dbLock = "poller"

\* C31: a step remove_tx(txid, reason) tracks the same txids as before and
\* leaves the replacement chain and every other entry as they were; the
\* entry of a tracked txid gets the state of the reason (Confirmed for
\* Confirmed, Replaced for Replaced, Evicted for Evicted, Conflict and
\* Unknown) and the time of the call, and keeps its other fields; on an
\* untracked txid nothing changes.
C31_RemoveSetsStateKeepsEntries ==
    [][last'.op = "remove_tx" =>
          /\ DOMAIN entries' = DOMAIN entries
          /\ replacement_chain' = replacement_chain
          /\ \A x \in DOMAIN entries :
                IF x = last'.txid
                THEN /\ entries'[x].state =
                           (IF last'.reason \in {"Confirmed", "Replaced"}
                            THEN last'.reason ELSE "Evicted")
                     /\ entries'[x].state_changed_at = now
                     /\ entries'[x].fee_rate = entries[x].fee_rate
                     /\ entries'[x].replaced_by = entries[x].replaced_by
                ELSE entries'[x] = entries[x]]_vars

\* remove_tx with reason Unknown has acted on a tracked entry, at a time
\* after the start, next to a second entry
C31_Witness ==
    /\ last.op = "remove_tx" /\ last.reason = "Unknown"
    /\ last.txid \in DOMAIN entries
    /\ entries[last.txid].state = "Evicted"
    /\ entries[last.txid].state_changed_at = now
    /\ now > 0
    /\ Cardinality(DOMAIN entries) = 2

\* C34: a step add_tx(tx) leaves the entry of tx.txid in state Pending with
\* replaced_by empty and the time of the call, whatever was tracked for the
\* txid before, tracks the txids of before and tx.txid, and leaves every
\* other entry as it was.
C34_AddLeavesPending ==
    [][last'.op = "add_tx" =>
          /\ DOMAIN entries' = DOMAIN entries \cup {last'.txid}
          /\ entries'[last'.txid].state = "Pending"
          /\ entries'[last'.txid].replaced_by = None
          /\ entries'[last'.txid].state_changed_at = now
          /\ \A x \in DOMAIN entries \ {last'.txid} :
                entries'[x] = entries[x]]_vars

\* add_tx has acted on a txid that record_replacement had replaced before,
\* next to an entry that is not Pending
C34_Witness ==
    /\ last.op = "add_tx"
    /\ last.txid \in DOMAIN replacement_chain
    /\ entries[last.txid].state = "Pending"
    /\ entries[last.txid].replaced_by = None
    /\ \E x \in DOMAIN entries : entries[x].state = "Confirmed"

\* C35: an entry that is Pending after a step other than add_tx was tracked
\* and Pending before it, so remove_tx, record_replacement, confirm_txids
\* and prune_old never bring an entry back to Pending; and confirm_txids
\* changes only listed entries that are Pending, to Confirmed, and tracks
\* the same txids as before.
C35_PendingOnlyThroughAdd ==
    /\ [][last'.op # "add_tx" =>
             \A x \in DOMAIN entries' :
                entries'[x].state = "Pending"
                   => x \in DOMAIN entries /\ entries[x].state = "Pending"]_vars
    /\ [][last'.op = "confirm_txids" =>
             /\ DOMAIN entries' = DOMAIN entries
             /\ \A x \in DOMAIN entries :
                   IF x \in last'.txids /\ entries[x].state = "Pending"
                   THEN /\ entries'[x].state = "Confirmed"
                        /\ entries'[x].state_changed_at = now
                   ELSE entries'[x] = entries[x]]_vars

\* confirm_txids has acted on a list of two tracked txids, one Pending and
\* now Confirmed, one Replaced at an earlier time and unchanged
C35_Witness ==
    /\ last.op = "confirm_txids"
    /\ last.txids = DOMAIN entries
    /\ \E x \in DOMAIN entries, y \in DOMAIN entries :
          /\ entries[x].state = "Confirmed"
          /\ entries[x].state_changed_at = now
          /\ entries[y].state = "Replaced"
          /\ entries[y].state_changed_at < now

\* the loop takes a TxAdded event whose raw bytes do not decode
TakesUndecodable ==
    /\ pipe.stage = "idle"
    /\ events # << >>
    /\ Head(events).kind = "TxAdded"
    /\ Head(events).parsed = << >>
    /\ events' = Tail(events)

\* C33: the step that takes a TxAdded event whose raw bytes do not decode
\* changes nothing but the channel: the mempool state, the sink, the tx
\* counter, the cache, the calls of the node and the stored signals are as
\* before, and the loop is ready for the next event.
C33_UndecodableDropped ==
    [][TakesUndecodable =>
          /\ entries' = entries
          /\ replacement_chain' = replacement_chain
          /\ sink' = sink
          /\ tx_count' = tx_count
          /\ analyzed' = analyzed
          /\ utxo_cache' = utxo_cache
          /\ rpcCalls' = rpcCalls
          /\ signals' = signals
          /\ block_count' = block_count
          /\ pipe'.stage = "idle"]_vars

\* two TxAdded events have been taken, one was processed and counted, the
\* other did not decode, and the loop is idle again
C33_Witness ==
    /\ nextSeq = 3
    /\ events = << >>
    /\ pipe.stage = "idle"
    /\ tx_count = 1
    /\ Cardinality(DOMAIN entries) = 1
    /\ Len(sink) = 1

\* C32 as claimed: every RuleScore of a scored transaction has a raw_value
\* in [-1, 1] and weighted_score = raw_value x weight, also when
\* oldest_input_time lies in the future or a confidence lies outside [0, 1].
C32_RawValueInUnitRange ==
    sc.stage = "scored" =>
        \A i \in DOMAIN sc.rule_scores :
            /\ FGe(sc.rule_scores[i].raw_value, Rat(-1, 1))
            /\ FGe(Rat(1, 1), sc.rule_scores[i].raw_value)
            /\ sc.rule_scores[i].weighted_score
                 = FMul(sc.rule_scores[i].raw_value, sc.rule_scores[i].weight)

\* a pass of the subscriber's loop that handles the frame at the rawtx socket
RawtxStep == inbox.rawtx # << >> /\ inbox'.rawtx = << >>

\* a pass of the subscriber's loop that handles the frame at the hashblock
\* socket
HashblockStep == inbox.hashblock # << >> /\ inbox'.hashblock = << >>

\* a pass of the loop that reaches a send of TxAdded, BlockConnected,
\* TxRemoved or BlockDisconnected
SendAttempt ==
    \/ /\ RawtxStep
       /\ inbox.rawtx[1].parts >= 2
       /\ inbox.rawtx[1].topic = "rawtx"
    \/ /\ HashblockStep
       /\ inbox.hashblock[1].parts >= 2
       /\ inbox.hashblock[1].topic = "hashblock"
       /\ inbox.hashblock[1].body_len = HASH_LEN
    \/ /\ FrameStep
       /\ WellFormed(FrameAtHand)
       /\ FrameAtHand.label \in {"R", "C", "D"}
       /\ zmq'.status # "panicked"

\* C36: once the pipeline has dropped the receive end of the event channel,
\* nothing is put on the channel any more, the first pass of the subscriber
\* that reaches a send (of TxAdded, TxRemoved, BlockConnected or
\* BlockDisconnected) leaves the subscriber exited, and an exited subscriber
\* handles no further frame and sends nothing.
C36_ExitsOnClosedChannel ==
    [][/\ ChannelClosed => events' = events
       /\ (ChannelClosed /\ zmq.status = "running" /\ SendAttempt)
              => zmq'.status = "exited"
       /\ zmq.status = "exited"
              => zmq' = zmq /\ inbox' = inbox /\ events' = events]_vars

\* the subscriber has exited on the closed channel with a frame still
\* waiting at another socket
C36_Witness ==
    /\ ChannelClosed
    /\ zmq.status = "exited"
    /\ inbox.rawtx # << >> \/ inbox.hashblock # << >> \/ zmq.socket # << >>

\* the BlockConnected messages the sink has received
BlockConnectedMessages == {i \in 1..Len(sink) : sink[i].kind = "BlockConnected"}

\* every frame published so far has been handled by the subscriber and every
\* event by the pipeline, with the subscriber running and the sink open
BlocksHandled ==
    /\ zmq.status = "running"
    /\ sinkOpen
    /\ pipe.stage = "idle"
    /\ inbox.hashblock = << >>
    /\ zmq.socket = << >>
    /\ events = << >>

\* C38 as claimed: once the hashblock frame and the sequence frame with
\* label C of every block the node connected have been handled, the
\* pipeline's block counter equals the number of blocks connected and the
\* sink has received one BlockConnected message per block.
C38_OneBlockCountedOnce ==
    BlocksHandled =>
        /\ block_count = inbox.blocks
        /\ Cardinality(BlockConnectedMessages) = inbox.blocks

\* C37: the result of detect_coinjoin is the same for every entry
\* max_by_key may return when several output values tie for most frequent:
\* is_coinjoin, confidence and pattern of the result the detector produced
\* are those of every other choice among the tied values.
C37_TieChoiceIrrelevant ==
    cj.stage = "detected" =>
        \A best \in BestEntries(ValueCounts(cj.outputs)) :
            cj.result = DetectCoinjoin(cj.input_count,
                                       OutputCount(cj.outputs, DOMAIN cj.outputs),
                                       best)

\* a transaction of five inputs detected whose most frequent output value
\* is tied between a Whirlpool pool size and a value that is not round,
\* five outputs each
C37_Witness ==
    /\ cj.stage = "detected"
    /\ cj.input_count >= 5
    /\ cj.outputs[100000] = 5
    /\ cj.outputs[50000] = 5
    /\ Cardinality(BestEntries(ValueCounts(cj.outputs))) >= 2

\* the store holds for address a a tag of the entity and the confidence of
\* the tag the index m holds for it
Agrees(m, db, a) ==
    /\ a \in DOMAIN db
    /\ db[a].entity = m[a].entity
    /\ db[a].confidence = m[a].confidence

\* C39 as claimed: after any sequence of cluster expansions on an index
\* hydrated from the persistent store, every address tagged in the
\* in-memory map has a stored tag of the same entity and confidence, also
\* when an upsert failed.
C39_MapAndStoreAgree ==
    tagPhase = "running" => \A a \in DOMAIN map : Agrees(map, dbTags, a)

\* C39 as amended: every address tagged in the in-memory map has a stored tag
\* of the same entity and confidence, or it carries a cluster tag and the
\* store has no tag for it or one of lower confidence; and a call of
\* expand_from_tx leaves in agreement every address it wrote and every
\* address that agreed before, except the addresses whose upsert failed in
\* that call.
C39_MapAndStoreAgreeUnlessFailed ==
    /\ [](\A a \in DOMAIN map :
             \/ Agrees(map, dbTags, a)
             \/ /\ map[a].source = "cluster_heuristic"
                /\ \/ a \notin DOMAIN dbTags
                   \/ RatLt(dbTags[a].confidence, map[a].confidence))
    /\ [][tagLast'.op = "expand_from_tx"
          => \A a \in DOMAIN map' \ tagLast'.failed :
                (\/ a \notin DOMAIN map
                 \/ map'[a] # map[a]
                 \/ Agrees(map, dbTags, a))
                    => Agrees(map', dbTags', a)]_vars

\* after expansions of several transactions one address carries a cluster
\* tag the store does not hold, its upsert having failed, and another a
\* tag derived from a cluster tag, which the store holds as well
C39_Witness ==
    /\ tagPhase = "running"
    /\ tagLast.op = "expand_from_tx"
    /\ \E a \in DOMAIN map, b \in DOMAIN map :
          /\ a # b
          /\ map[a].source = "cluster_heuristic"
          /\ ~Agrees(map, dbTags, a)
          /\ map[b].confidence = Rat(441, 1000)
          /\ Agrees(map, dbTags, b)
====
